---- MODULE Spec2Model ----
(***************************************************************************)
(* Model of the backtest simulator of sentiment-engine: Position and       *)
(* Portfolio of src/core/backtesting.py.                                   *)
(*                                                                         *)
(* Python floats are modelled as exact rationals <<numerator, denominator>>*)
(* in lowest terms with a positive denominator, so that capital, PnL,      *)
(* equity and drawdown are computed by the same expressions as the code    *)
(* (rounding error of IEEE doubles is not modelled).  Timestamps are whole *)
(* minutes.  Python's None is the value None below.                        *)
(***************************************************************************)
EXTENDS Integers, Sequences, FiniteSets, TLC

(***************************************************************************)
(* Exact rational arithmetic.                                              *)
(***************************************************************************)
Abs(x) == IF x < 0 THEN -x ELSE x

RECURSIVE GCD(_, _)
GCD(a, b) == IF b = 0 THEN a ELSE GCD(b, a % b)

\* n/d in lowest terms, d # 0
Rat(n, d) ==
    LET s == IF d < 0 THEN -1 ELSE 1
        g == GCD(Abs(n), Abs(d))
    IN  <<(s * n) \div g, (s * d) \div g>>

FromInt(n) == <<n, 1>>

RNeg(a) == <<-a[1], a[2]>>

RAdd(a, b) ==
    LET g == GCD(a[2], b[2])
    IN  Rat(a[1] * (b[2] \div g) + b[1] * (a[2] \div g), (a[2] \div g) * b[2])

RSub(a, b) == RAdd(a, RNeg(b))

RMul(a, b) ==
    LET g1 == GCD(Abs(a[1]), b[2])
        g2 == GCD(Abs(b[1]), a[2])
    IN  Rat((a[1] \div g1) * (b[1] \div g2), (a[2] \div g2) * (b[2] \div g1))

\* a / b for b # 0
RDiv(a, b) == RMul(a, Rat(b[2], b[1]))

RLt(a, b) == RSub(a, b)[1] < 0
RLe(a, b) == RSub(a, b)[1] <= 0
RGt(a, b) == RLt(b, a)
RGe(a, b) == RLe(b, a)
RMax(a, b) == IF RLt(a, b) THEN b ELSE a
RMin(a, b) == IF RLt(b, a) THEN b ELSE a
Zero == <<0, 1>>

(***************************************************************************)
(* Values of the data model.                                               *)
(***************************************************************************)
\* Python's None (Optional[float] / Optional[datetime] fields)
None == -1

\* truth value of an Optional[float] in "if self.signal.stop_loss:":
\* None and 0.0 are both false
Truthy(x) == x # None /\ x # 0

BUY == "BUY"
SELL == "SELL"
HOLD == "HOLD"

\* maximum holding period, hours
MaxHoldHours == 24

\* timedelta(hours=24), in minutes
max_hold_time == MaxHoldHours * 60

\* minutes from one step of a backtest run to the next
StepMinutes == 5

\* 95% maximum capital utilisation
MaxUtilization == <<19, 20>>

\* default initial capital of Portfolio.__init__
DefaultCapital == 100000

(***************************************************************************)
(* Inputs of the model: the assets, the prices a market observation can    *)
(* carry, the signals offered to the portfolio and the steps of time.      *)
(***************************************************************************)
Assets == {"A", "B"}

\* the prices of the market observations; the highest is 3 times the lowest
Prices == {40, 100, 120}

\* signal_type, position_size, stop_loss, take_profit of the signals offered
SignalTemplates ==
    { [signal_type |-> HOLD, position_size |-> <<1, 10>>,
       stop_loss |-> None, take_profit |-> None],
      [signal_type |-> BUY, position_size |-> <<1, 10>>,
       stop_loss |-> 40, take_profit |-> 120],
      [signal_type |-> SELL, position_size |-> <<1, 2>>,
       stop_loss |-> 120, take_profit |-> 40],
      [signal_type |-> BUY, position_size |-> <<24, 25>>,
       stop_loss |-> None, take_profit |-> None] }

\* minutes from one market snapshot to the next: the maximum holding period
\* and one step more
TimeSteps == {max_hold_time, max_hold_time + StepMinutes}

\* number of add_signal / update_positions calls in a run
MaxCalls == 3

\* TradingSignal (the fields the simulator reads)
Signal(asset, timestamp, tpl) ==
    [asset |-> asset, timestamp |-> timestamp,
     signal_type |-> tpl.signal_type, position_size |-> tpl.position_size,
     stop_loss |-> tpl.stop_loss, take_profit |-> tpl.take_profit]

\* a market snapshot: price[a] is the price of asset a or None when the
\* snapshot has no observation for a; timestamp is that of its observations
Snapshots(t) ==
    { [price |-> p, timestamp |-> t] : p \in [Assets -> Prices \cup {None}] }

(***************************************************************************)
(* Position                                                                *)
(***************************************************************************)
\* Position.__init__; id stands for the identity of the object,
\* close_calls counts the executions of close_position on it and reason is
\* the reason close_position was given (the code only logs it)
NewPosition(id, symbol, signal, entry_price) ==
    [id |-> id, symbol |-> symbol, signal |-> signal,
     entry_price |-> entry_price, entry_time |-> signal.timestamp,
     exit_price |-> None, exit_time |-> None, pnl |-> Zero,
     is_closed |-> FALSE,
     max_favorable_excursion |-> Zero, max_adverse_excursion |-> Zero,
     close_calls |-> 0, reason |-> ""]

\* (price - entry) / entry for BUY, (entry - price) / entry otherwise
PnlFraction(signal_type, entry_price, price) ==
    IF signal_type = BUY
    THEN Rat(price - entry_price, entry_price)
    ELSE Rat(entry_price - price, entry_price)

\* close_position that leaves is_closed unset
close_position_no_flag(pos, exit_price, exit_time, reason) ==
    [pos EXCEPT
        !.exit_price = exit_price,
        !.exit_time = exit_time,
        !.pnl = RMul(PnlFraction(pos.signal.signal_type, pos.entry_price, exit_price),
                     pos.signal.position_size),
        !.close_calls = @ + 1,
        !.reason = reason]

\* Position.close_position
close_position(pos, exit_price, exit_time, reason) ==
    [pos EXCEPT
        !.exit_price = exit_price,
        !.exit_time = exit_time,
        !.is_closed = TRUE,
        !.pnl = RMul(PnlFraction(pos.signal.signal_type, pos.entry_price, exit_price),
                     pos.signal.position_size),
        !.close_calls = @ + 1,
        !.reason = reason]

\* Position._check_exit_conditions: <<should_exit, exit_reason>>
check_exit_conditions(pos, current_price, current_time) ==
    LET ty == pos.signal.signal_type
        sl == pos.signal.stop_loss
        tp == pos.signal.take_profit
    IN  IF current_time - pos.entry_time > max_hold_time
        THEN <<TRUE, "time_exit">>
        ELSE IF Truthy(sl) /\ ty = BUY /\ current_price <= sl
        THEN <<TRUE, "stop_loss">>
        ELSE IF Truthy(sl) /\ ty = SELL /\ current_price >= sl
        THEN <<TRUE, "stop_loss">>
        ELSE IF Truthy(tp) /\ ty = BUY /\ current_price >= tp
        THEN <<TRUE, "take_profit">>
        ELSE IF Truthy(tp) /\ ty = SELL /\ current_price <= tp
        THEN <<TRUE, "take_profit">>
        ELSE <<FALSE, "">>

\* the excursion tracking of Position.update_price
TrackExcursions(pos, current_price) ==
    LET f == PnlFraction(pos.signal.signal_type, pos.entry_price, current_price)
        favorable == IF pos.signal.signal_type = BUY
                     THEN current_price > pos.entry_price
                     ELSE current_price < pos.entry_price
    IN  IF favorable
        THEN [pos EXCEPT !.max_favorable_excursion = RMax(@, f)]
        ELSE [pos EXCEPT !.max_adverse_excursion = RMin(@, f)]

\* update_price without the early return for a closed position
update_price_unguarded(pos, current_price, current_time) ==
    LET tracked == TrackExcursions(pos, current_price)
        exit == check_exit_conditions(tracked, current_price, current_time)
    IN  IF exit[1]
        THEN close_position(tracked, current_price, current_time, exit[2])
        ELSE tracked

\* Position.update_price
update_price(pos, current_price, current_time) ==
    IF pos.is_closed
    THEN pos
    ELSE LET tracked == TrackExcursions(pos, current_price)
             exit == check_exit_conditions(tracked, current_price, current_time)
         IN  IF exit[1]
             THEN close_position(tracked, current_price, current_time, exit[2])
             ELSE tracked

(***************************************************************************)
(* Portfolio.  A portfolio value pf is the record of the object's fields.  *)
(***************************************************************************)
\* Portfolio.__init__
NewPortfolio(initial_capital) ==
    [initial_capital |-> initial_capital,
     current_capital |-> FromInt(initial_capital),
     positions |-> <<>>, closed_positions |-> <<>>,
     equity_curve |-> <<>>, daily_returns |-> <<>>,
     max_drawdown |-> Zero, peak_equity |-> FromInt(initial_capital)]

\* list.remove(position): the list without its first element that is the
\* object id
RECURSIVE RemoveById(_, _)
RemoveById(seq, id) ==
    IF seq = <<>> THEN <<>>
    ELSE IF Head(seq).id = id THEN Tail(seq)
    ELSE <<Head(seq)>> \o RemoveById(Tail(seq), id)

\* the list with the object id replaced by its new value pos (the object
\* was mutated in place)
StoreById(seq, pos) ==
    [i \in DOMAIN seq |-> IF seq[i].id = pos.id THEN pos ELSE seq[i]]

\* Portfolio._get_open_position: the index in positions of the first open
\* position for symbol, 0 for None
RECURSIVE FirstOpenFrom(_, _, _)
FirstOpenFrom(positions, symbol, i) ==
    IF i > Len(positions) THEN 0
    ELSE IF positions[i].symbol = symbol /\ ~positions[i].is_closed THEN i
    ELSE FirstOpenFrom(positions, symbol, i + 1)

\* _get_open_position that tests is_closed instead of not is_closed
RECURSIVE FirstClosedFrom(_, _, _)
FirstClosedFrom(positions, symbol, i) ==
    IF i > Len(positions) THEN 0
    ELSE IF positions[i].symbol = symbol /\ positions[i].is_closed THEN i
    ELSE FirstClosedFrom(positions, symbol, i + 1)

get_open_position_inverted(positions, symbol) == FirstClosedFrom(positions, symbol, 1)

get_open_position(positions, symbol) == FirstOpenFrom(positions, symbol, 1)

\* _settle_closed_position that adds the PnL fraction to the capital
\* without multiplying it by the capital
settle_closed_position_unscaled(pf, position) ==
    LET pnl_amount == position.pnl
        capital == RAdd(pf.current_capital, pnl_amount)
        moved == [pf EXCEPT
                    !.current_capital = capital,
                    !.positions = RemoveById(@, position.id),
                    !.closed_positions = Append(@, position)]
    IN  IF capital = Zero
        THEN [pf |-> moved, raised |-> TRUE]
        ELSE [pf |-> [moved EXCEPT
                        !.daily_returns = Append(@, RDiv(pnl_amount, capital))],
              raised |-> FALSE]

\* Portfolio._settle_closed_position on the position object position, which
\* is in pf.positions under its id.  The division by a current_capital of
\* zero raises ZeroDivisionError after the position was moved.
settle_closed_position(pf, position) ==
    LET pnl_amount == RMul(position.pnl, pf.current_capital)
        capital == RAdd(pf.current_capital, pnl_amount)
        moved == [pf EXCEPT
                    !.current_capital = capital,
                    !.positions = RemoveById(@, position.id),
                    !.closed_positions = Append(@, position)]
    IN  IF capital = Zero
        THEN [pf |-> moved, raised |-> TRUE]
        ELSE [pf |-> [moved EXCEPT
                        !.daily_returns = Append(@, RDiv(pnl_amount, capital))],
              raised |-> FALSE]

\* the identity of the next Position object created
NextId(pf) == Len(pf.positions) + Len(pf.closed_positions) + 1

\* add_signal without the HOLD test
add_signal_no_hold_test(pf, signal, current_price) ==
    LET existing == get_open_position(pf.positions, signal.asset)
        closed == close_position(pf.positions[existing], current_price,
                                 signal.timestamp, "new_signal")
        settled == IF existing # 0
                   THEN settle_closed_position(
                            [pf EXCEPT !.positions = StoreById(@, closed)], closed)
                   ELSE [pf |-> pf, raised |-> FALSE]
        pf1 == settled.pf
        position_value == RMul(pf1.current_capital, signal.position_size)
    IN  IF settled.raised
        THEN [pf |-> pf1, result |-> "ZeroDivisionError"]
        ELSE IF RGt(position_value, RMul(pf1.current_capital, MaxUtilization))
        THEN [pf |-> pf1, result |-> "False"]
        ELSE [pf |-> [pf1 EXCEPT !.positions =
                        Append(@, NewPosition(NextId(pf1), signal.asset,
                                              signal, current_price))],
              result |-> "True"]

\* add_signal that closes the existing position without settling it
add_signal_no_settle(pf, signal, current_price) ==
    IF signal.signal_type = HOLD
    THEN [pf |-> pf, result |-> "False"]
    ELSE
      LET existing == get_open_position(pf.positions, signal.asset)
          closed == close_position(pf.positions[existing], current_price,
                                   signal.timestamp, "new_signal")
          pf1 == IF existing # 0
                 THEN [pf EXCEPT !.positions = StoreById(@, closed)]
                 ELSE pf
          position_value == RMul(pf1.current_capital, signal.position_size)
      IN  IF RGt(position_value, RMul(pf1.current_capital, MaxUtilization))
          THEN [pf |-> pf1, result |-> "False"]
          ELSE [pf |-> [pf1 EXCEPT !.positions =
                          Append(@, NewPosition(NextId(pf1), signal.asset,
                                                signal, current_price))],
                result |-> "True"]

\* Portfolio.add_signal: the portfolio after the call and what the call
\* returned ("True", "False") or raised ("ZeroDivisionError")
add_signal(pf, signal, current_price) ==
    IF signal.signal_type = HOLD
    THEN [pf |-> pf, result |-> "False"]
    ELSE
      LET existing == get_open_position(pf.positions, signal.asset)
          closed == close_position(pf.positions[existing], current_price,
                                   signal.timestamp, "new_signal")
          settled == IF existing # 0
                     THEN settle_closed_position(
                              [pf EXCEPT !.positions = StoreById(@, closed)], closed)
                     ELSE [pf |-> pf, raised |-> FALSE]
          pf1 == settled.pf
          position_value == RMul(pf1.current_capital, signal.position_size)
      IN  IF settled.raised
          THEN [pf |-> pf1, result |-> "ZeroDivisionError"]
          ELSE IF RGt(position_value, RMul(pf1.current_capital, MaxUtilization))
          THEN [pf |-> pf1, result |-> "False"]
          ELSE [pf |-> [pf1 EXCEPT !.positions =
                          Append(@, NewPosition(NextId(pf1), signal.asset,
                                                signal, current_price))],
                result |-> "True"]

\* Portfolio._calculate_current_equity
RECURSIVE EquityFrom(_, _, _, _)
EquityFrom(pf, market_data, i, equity) ==
    IF i > Len(pf.positions) THEN equity
    ELSE LET position == pf.positions[i]
             price == market_data.price[position.symbol]
             unrealized_pnl == PnlFraction(position.signal.signal_type,
                                           position.entry_price, price)
         IN  IF ~position.is_closed /\ price # None
             THEN EquityFrom(pf, market_data, i + 1,
                      RAdd(equity, RMul(RMul(unrealized_pnl,
                                             position.signal.position_size),
                                        pf.current_capital)))
             ELSE EquityFrom(pf, market_data, i + 1, equity)

calculate_current_equity(pf, market_data) ==
    EquityFrom(pf, market_data, 1, pf.current_capital)

\* the loop of Portfolio.update_positions over the copy snapshot of
\* self.positions, from its i-th element on; an exception ends it
RECURSIVE UpdateLoop(_, _, _, _)
UpdateLoop(pf, snapshot, i, market_data) ==
    IF i > Len(snapshot) THEN [pf |-> pf, raised |-> FALSE]
    ELSE LET price == market_data.price[snapshot[i].symbol]
             position == update_price(snapshot[i], price, market_data.timestamp)
             pf1 == [pf EXCEPT !.positions = StoreById(@, position)]
         IN  IF price = None
             THEN UpdateLoop(pf, snapshot, i + 1, market_data)
             ELSE IF position.is_closed
             THEN LET settled == settle_closed_position(pf1, position)
                  IN  IF settled.raised THEN settled
                      ELSE UpdateLoop(settled.pf, snapshot, i + 1, market_data)
             ELSE UpdateLoop(pf1, snapshot, i + 1, market_data)

\* the update of peak and drawdown that stores the current drawdown instead of
\* the maximum
UpdatePeakAndDrawdown_overwrite(pf, current_equity) ==
    IF RGt(current_equity, pf.peak_equity)
    THEN [pf EXCEPT !.peak_equity = current_equity]
    ELSE [pf EXCEPT !.max_drawdown =
            RDiv(RSub(pf.peak_equity, current_equity), pf.peak_equity)]

\* "Update peak and drawdown" of Portfolio.update_positions
UpdatePeakAndDrawdown(pf, current_equity) ==
    IF RGt(current_equity, pf.peak_equity)
    THEN [pf EXCEPT !.peak_equity = current_equity]
    ELSE [pf EXCEPT !.max_drawdown =
            RMax(@, RDiv(RSub(pf.peak_equity, current_equity), pf.peak_equity))]

\* the equity-curve point of Portfolio.update_positions (its 'timestamp',
\* the wall clock at the call, is not part of the model)
EquityPoint(pf, current_equity) ==
    [equity |-> current_equity,
     drawdown |-> RDiv(RSub(pf.peak_equity, current_equity), pf.peak_equity)]

\* Portfolio.update_positions: the portfolio after the call and what the
\* call returned ("None") or raised ("ZeroDivisionError")
update_positions(pf, market_data) ==
    LET looped == UpdateLoop(pf, pf.positions, 1, market_data)
        pf1 == looped.pf
        current_equity == calculate_current_equity(pf1, market_data)
        pf2 == [pf1 EXCEPT !.equity_curve = Append(@, EquityPoint(pf1, current_equity))]
    IN  IF looped.raised
        THEN [pf |-> pf1, result |-> "ZeroDivisionError"]
        ELSE [pf |-> UpdatePeakAndDrawdown(pf2, current_equity), result |-> "None"]

(***************************************************************************)
(* BacktestEngine.  The prices MockMarketData draws with np.random are    *)
(* inputs of the simulation loop: prices[symbol] is the price of the data  *)
(* point generated for symbol at the time of the pass.                     *)
(***************************************************************************)
\* float('inf')
Infinity == "inf"

\* sum(p.pnl for p in trades)
RECURSIVE SumPnl(_)
SumPnl(trades) ==
    IF trades = <<>> THEN Zero ELSE RAdd(Head(trades).pnl, SumPnl(Tail(trades)))

\* sum of a list of numbers
RECURSIVE Sum(_)
Sum(xs) == IF xs = <<>> THEN Zero ELSE RAdd(Head(xs), Sum(Tail(xs)))

\* np.mean of a non-empty list
Mean(xs) == RDiv(Sum(xs), FromInt(Len(xs)))

\* np.std(xs) squared (population variance) of a non-empty list
Variance(xs) ==
    LET m == Mean(xs)
    IN  Mean([i \in DOMAIN xs |-> RMul(RSub(xs[i], m), RSub(xs[i], m))])

\* the Sharpe ratio mean / std * sqrt(252), given by its sign and its square;
\* 0 when the standard deviation is not positive or there are no returns
SharpeRatio(daily_returns) ==
    IF daily_returns = <<>> \/ Variance(daily_returns) = Zero
    THEN [sign |-> 0, square |-> Zero]
    ELSE LET m == Mean(daily_returns)
         IN  [sign |-> IF m[1] > 0 THEN 1 ELSE IF m[1] < 0 THEN -1 ELSE 0,
              square |-> RMul(FromInt(252),
                              RDiv(RMul(m, m), Variance(daily_returns)))]

\* max(...) and min(...) of the PnL of trades, with default 0
RECURSIVE LargestPnl(_, _)
LargestPnl(trades, best) ==
    IF trades = <<>> THEN best
    ELSE LargestPnl(Tail(trades), RMax(best, Head(trades).pnl))

RECURSIVE SmallestPnl(_, _)
SmallestPnl(trades, worst) ==
    IF trades = <<>> THEN worst
    ELSE SmallestPnl(Tail(trades), RMin(worst, Head(trades).pnl))

\* a list sorted by entry_time with one more trade, put after the trades
\* that do not enter later than it
RECURSIVE InsertByEntryTime(_, _)
InsertByEntryTime(sorted_trades, trade) ==
    IF sorted_trades = <<>> THEN <<trade>>
    ELSE IF Head(sorted_trades).entry_time <= trade.entry_time
         THEN <<Head(sorted_trades)>> \o InsertByEntryTime(Tail(sorted_trades), trade)
         ELSE <<trade>> \o sorted_trades

\* sorted(trades, key=lambda x: x.entry_time), which keeps the order of
\* trades with the same entry_time
RECURSIVE SortedByEntryTime(_)
SortedByEntryTime(trades) ==
    IF trades = <<>> THEN <<>>
    ELSE InsertByEntryTime(SortedByEntryTime(SubSeq(trades, 1, Len(trades) - 1)),
                           trades[Len(trades)])

\* "for trade in sorted_trades" of _calculate_max_consecutive, from the
\* i-th trade on
RECURSIVE MaxConsecutiveLoop(_, _, _, _)
MaxConsecutiveLoop(sorted_trades, i, max_consecutive, current_consecutive) ==
    IF i > Len(sorted_trades) THEN max_consecutive
    ELSE MaxConsecutiveLoop(sorted_trades, i + 1,
                            IF max_consecutive >= current_consecutive + 1
                            THEN max_consecutive ELSE current_consecutive + 1,
                            current_consecutive + 1)

\* _calculate_max_consecutive whose counter starts again at every trade
calculate_max_consecutive_reset(trades) ==
    IF trades = <<>> THEN 0 ELSE 1

\* BacktestEngine._calculate_max_consecutive
calculate_max_consecutive(trades) ==
    IF trades = <<>> THEN 0
    ELSE MaxConsecutiveLoop(SortedByEntryTime(trades), 1, 0, 0)

\* the profit factor that is 0 instead of infinite without a loss
profit_factor_zero_default(total_profit, total_loss) ==
    IF RGt(total_loss, Zero) THEN RDiv(total_profit, total_loss) ELSE Zero

\* profit_factor of _calculate_results
profit_factor(total_profit, total_loss) ==
    IF RGt(total_loss, Zero) THEN RDiv(total_profit, total_loss) ELSE Infinity

\* BacktestEngine._calculate_results on the engine's portfolio pf
calculate_results(pf, start_date, end_date) ==
    LET final_equity == IF pf.equity_curve # <<>>
                        THEN pf.equity_curve[Len(pf.equity_curve)].equity
                        ELSE FromInt(pf.initial_capital)
        total_return == RDiv(RSub(final_equity, FromInt(pf.initial_capital)),
                             FromInt(pf.initial_capital))
        profitable_trades == SelectSeq(pf.closed_positions, LAMBDA p : RGt(p.pnl, Zero))
        losing_trades == SelectSeq(pf.closed_positions, LAMBDA p : RLt(p.pnl, Zero))
        total_trades == Len(pf.closed_positions)
        win_rate == IF total_trades > 0
                    THEN Rat(Len(profitable_trades), total_trades)
                    ELSE Zero
        total_profit == SumPnl(profitable_trades)
        total_loss == LET l == SumPnl(losing_trades) IN <<Abs(l[1]), l[2]>>
        durations == [i \in DOMAIN pf.closed_positions |->
                        Rat(pf.closed_positions[i].exit_time
                              - pf.closed_positions[i].entry_time, 60)]
        avg_trade_duration == IF pf.closed_positions # <<>>
                              THEN Mean(durations) ELSE Zero
    IN  [start_date |-> start_date,
         end_date |-> end_date,
         total_return |-> total_return,
         sharpe_ratio |-> SharpeRatio(pf.daily_returns),
         max_drawdown |-> pf.max_drawdown,
         win_rate |-> win_rate,
         profit_factor |-> profit_factor(total_profit, total_loss),
         total_trades |-> total_trades,
         avg_trade_duration |-> avg_trade_duration,
         details |->
            [final_equity |-> final_equity,
             total_profitable_trades |-> Len(profitable_trades),
             total_losing_trades |-> Len(losing_trades),
             largest_win |-> LargestPnl(profitable_trades, Zero),
             largest_loss |-> SmallestPnl(losing_trades, Zero),
             avg_win |-> IF profitable_trades # <<>>
                         THEN Mean([i \in DOMAIN profitable_trades |->
                                        profitable_trades[i].pnl])
                         ELSE Zero,
             avg_loss |-> IF losing_trades # <<>>
                          THEN Mean([i \in DOMAIN losing_trades |->
                                         losing_trades[i].pnl])
                          ELSE Zero,
             max_consecutive_wins |-> calculate_max_consecutive(profitable_trades),
             max_consecutive_losses |-> calculate_max_consecutive(losing_trades),
             equity_curve |-> pf.equity_curve,
             all_trades |-> pf.closed_positions]]

\* symbols of run_backtest when none are given: the assets of the signals
SignalAssets(signals) == { signals[i].asset : i \in DOMAIN signals }

\* current_market_data of one step of run_backtest: for each of the symbols
\* the data point generated for current_date, whose price is prices[symbol]
CurrentMarketData(symbols, prices, current_date) ==
    [price |-> [a \in Assets |-> IF a \in symbols THEN prices[a] ELSE None],
     timestamp |-> current_date]

\* what the simulation loop has after a call r of the portfolio: the
\* portfolio, whether the call raised, and the calls made so far in the run
\* with this call (event) as the latest
Outcome(r, log, event) ==
    [pf |-> r.pf, raised |-> r.result = "ZeroDivisionError",
     log |-> Append(log, event)]

\* the loop body that offers a signal at every step from its timestamp on
OfferSignal_from_timestamp_on(offered, signals, i, current_market_data) ==
    IF /\ signals[i].timestamp <= current_market_data.timestamp
       /\ current_market_data.price[signals[i].asset] # None
    THEN Outcome(add_signal(offered.pf, signals[i],
                            current_market_data.price[signals[i].asset]),
                 offered.log,
                 [op |-> "add_signal", index |-> i,
                  current_date |-> current_market_data.timestamp])
    ELSE offered

\* the body of "for signal in signals_by_time[current_date]" for the i-th
\* signal of the list: add_signal when the signal is of current_date and its
\* asset has market data
OfferSignal(offered, signals, i, current_market_data) ==
    IF /\ signals[i].timestamp = current_market_data.timestamp
       /\ current_market_data.price[signals[i].asset] # None
    THEN Outcome(add_signal(offered.pf, signals[i],
                            current_market_data.price[signals[i].asset]),
                 offered.log,
                 [op |-> "add_signal", index |-> i,
                  current_date |-> current_market_data.timestamp])
    ELSE offered

\* "Process any signals at this timestamp": the signals of the list, from
\* the i-th on, offered in list order until a call raises
RECURSIVE ProcessSignals(_, _, _, _)
ProcessSignals(offered, signals, i, current_market_data) ==
    IF i > Len(signals) \/ offered.raised THEN offered
    ELSE ProcessSignals(OfferSignal(offered, signals, i, current_market_data),
                        signals, i + 1, current_market_data)

\* "Update existing positions", reached when no add_signal raised
UpdateExisting(offered, current_market_data) ==
    IF offered.raised THEN offered
    ELSE Outcome(update_positions(offered.pf, current_market_data),
                 offered.log,
                 [op |-> "update_positions",
                  current_date |-> current_market_data.timestamp])

\* one pass of the simulation loop of run_backtest, without the advance of
\* current_date; log holds the calls the run has made on the portfolio
SimulationStep(pf, log, signals, current_market_data) ==
    UpdateExisting(ProcessSignals([pf |-> pf, raised |-> FALSE, log |-> log],
                                  signals, 1, current_market_data),
                   current_market_data)

\* the symbols run_backtest works with; symbols is the set given, empty
\* for "not symbols" (None or an empty list)
RunSymbols(signals, symbols) ==
    IF symbols = {} THEN SignalAssets(signals) ELSE symbols

(***************************************************************************)
(* SentimentAggregator of src/core/signal_generator.py.  sentiment_data is *)
(* a function from the assets seen so far to their deques, oldest entry    *)
(* first.  Timestamps and windows are whole seconds.                       *)
(***************************************************************************)
\* maxlen of the deque of an asset (1000 in the code)
HistoryCapacity == 3

\* no asset: the None of _normalize_asset_name
NoAsset == ""

\* str.lower() and str.upper() on the entity names of the model
Lower(entity) ==
    CASE entity = "BTC" -> "btc"
      [] entity = "Tsla" -> "tsla"
      [] OTHER -> entity

Upper(entity) ==
    CASE entity = "bitcoin" -> "BITCOIN"
      [] entity = "Tsla" -> "TSLA"
      [] entity = "gold" -> "GOLD"
      [] OTHER -> entity

crypto_mapping ==
    [bitcoin |-> "BTC", btc |-> "BTC", ethereum |-> "ETH", eth |-> "ETH",
     cardano |-> "ADA", ada |-> "ADA", solana |-> "SOL", sol |-> "SOL",
     polygon |-> "MATIC", matic |-> "MATIC", dogecoin |-> "DOGE",
     doge |-> "DOGE", ripple |-> "XRP", xrp |-> "XRP"]

StockSymbols == {"AAPL", "GOOGL", "MSFT", "TSLA", "AMZN", "NVDA", "META"}

\* SentimentAggregator._normalize_asset_name
normalize_asset_name(entity) ==
    IF Lower(entity) \in DOMAIN crypto_mapping
    THEN crypto_mapping[Lower(entity)]
    ELSE IF Upper(entity) \in StockSymbols
    THEN Upper(entity)
    ELSE NoAsset

\* SentimentAggregator._extract_assets: the list of assets, in the order of
\* the entities, repetitions kept
RECURSIVE NormalizedFrom(_, _)
NormalizedFrom(financial_entities, i) ==
    IF i > Len(financial_entities) THEN <<>>
    ELSE LET normalized == normalize_asset_name(financial_entities[i])
         IN  IF normalized # NoAsset
             THEN <<normalized>> \o NormalizedFrom(financial_entities, i + 1)
             ELSE NormalizedFrom(financial_entities, i + 1)

extract_assets(data) ==
    LET assets == NormalizedFrom(data.financial_entities, 1)
    IN  IF assets = <<>> THEN <<"MARKET">> ELSE assets

\* SentimentAggregator._calculate_volume_proxy; a key that metadata does not
\* have is None
calculate_volume_proxy(data) ==
    LET metadata == data.raw_data.metadata
        v0 == FromInt(1)
        v1 == IF metadata.likes # None
              THEN RAdd(v0, RMul(FromInt(metadata.likes), <<1, 100>>)) ELSE v0
        v2 == IF metadata.retweets # None
              THEN RAdd(v1, RMul(FromInt(metadata.retweets), <<1, 20>>)) ELSE v1
        v3 == IF metadata.comments # None
              THEN RAdd(v2, RMul(FromInt(metadata.comments), <<1, 50>>)) ELSE v2
    IN  RMul(v3, data.relevance_score)

\* the entry add_sentiment_data appends for data
SentimentItem(data) ==
    [timestamp |-> data.raw_data.timestamp,
     sentiment_score |-> data.sentiment.score,
     confidence |-> data.sentiment.confidence,
     relevance |-> data.relevance_score,
     source |-> data.raw_data.source,
     volume_proxy |-> calculate_volume_proxy(data)]

\* deque(maxlen=...).append that drops the newest entry when full
DequeAppend_drop_newest(q, item) ==
    IF Len(q) >= HistoryCapacity
    THEN Append(SubSeq(q, 1, Len(q) - 1), item)
    ELSE Append(q, item)

\* deque(maxlen=HistoryCapacity).append: a full deque drops its oldest entry
DequeAppend(q, item) ==
    IF Len(q) >= HistoryCapacity
    THEN Append(Tail(q), item)
    ELSE Append(q, item)

\* self.sentiment_data[asset] of the defaultdict: a new empty deque for an
\* asset not seen before
DequeOf(sentiment_data, asset) ==
    IF asset \in DOMAIN sentiment_data THEN sentiment_data[asset] ELSE <<>>

\* the loop of add_sentiment_data over assets, from the i-th on
RECURSIVE AppendToAssets(_, _, _, _)
AppendToAssets(sentiment_data, assets, i, item) ==
    IF i > Len(assets) THEN sentiment_data
    ELSE LET asset == assets[i]
             q == DequeAppend(DequeOf(sentiment_data, asset), item)
         IN  AppendToAssets(
                 [a \in DOMAIN sentiment_data \cup {asset} |->
                     IF a = asset THEN q ELSE sentiment_data[a]],
                 assets, i + 1, item)

\* SentimentAggregator.add_sentiment_data
add_sentiment_data(sentiment_data, data) ==
    AppendToAssets(sentiment_data, extract_assets(data), 1, SentimentItem(data))

\* the column of a list of entries
Column(items, Field(_)) == [i \in DOMAIN items |-> Field(items[i])]

\* sources_breakdown: for each source of recent_data its count and the mean
\* of its scores
SourcesBreakdown(recent_data) ==
    [source \in { recent_data[i].source : i \in DOMAIN recent_data } |->
        LET of_source == SelectSeq(recent_data, LAMBDA item : item.source = source)
        IN  [count |-> Len(of_source),
             avg_sentiment |-> Mean(Column(of_source,
                                           LAMBDA item : item.sentiment_score))]]

\* momentum that gives the middle entry to the older half
Momentum_middle_to_older(sentiment_scores) ==
    LET mid_point == (Len(sentiment_scores) + 1) \div 2
    IN  IF Len(sentiment_scores) \div 2 > 0
        THEN RSub(Mean(SubSeq(sentiment_scores, mid_point + 1, Len(sentiment_scores))),
                  Mean(SubSeq(sentiment_scores, 1, mid_point)))
        ELSE Zero

\* "Calculate momentum" of get_aggregated_sentiment
Momentum(sentiment_scores) ==
    LET mid_point == Len(sentiment_scores) \div 2
    IN  IF mid_point > 0
        THEN RSub(Mean(SubSeq(sentiment_scores, mid_point + 1, Len(sentiment_scores))),
                  Mean(SubSeq(sentiment_scores, 1, mid_point)))
        ELSE Zero

\* the filter of get_aggregated_sentiment with a strict comparison
RecentData_strict(q, now, window_size) ==
    SelectSeq(q, LAMBDA item : item.timestamp > now - window_size)

\* "Filter data within time window" of get_aggregated_sentiment
RecentData(q, now, window_size) ==
    SelectSeq(q, LAMBDA item : item.timestamp >= now - window_size)

\* the absent result (None) of get_aggregated_sentiment
Absent == [present |-> FALSE]

\* SentimentAggregator.get_aggregated_sentiment, called at wall-clock time
\* now; recent_data, the filtered list the result is computed from, is kept
\* with the result
get_aggregated_sentiment(sentiment_data, asset, window_size, now) ==
    IF asset \notin DOMAIN sentiment_data THEN Absent
    ELSE
      LET recent_data == RecentData(sentiment_data[asset], now, window_size)
          sentiment_scores == Column(recent_data, LAMBDA item : item.sentiment_score)
          confidences == Column(recent_data, LAMBDA item : item.confidence)
          volumes == Column(recent_data, LAMBDA item : item.volume_proxy)
          total_volume == Sum(volumes)
          volume_weighted_score ==
              IF RGt(total_volume, Zero)
              THEN RDiv(Sum([i \in DOMAIN recent_data |->
                                RMul(sentiment_scores[i], volumes[i])]),
                        total_volume)
              ELSE Mean(sentiment_scores)
      IN  IF recent_data = <<>> THEN Absent
          ELSE [present |-> TRUE,
                asset |-> asset,
                timestamp |-> now,
                window_size |-> window_size,
                total_mentions |-> Len(recent_data),
                sentiment_score |-> Mean(sentiment_scores),
                confidence |-> Mean(confidences),
                volume_weighted_score |-> volume_weighted_score,
                momentum |-> Momentum(sentiment_scores),
                sources_breakdown |-> SourcesBreakdown(recent_data),
                recent_data |-> recent_data]

(***************************************************************************)
(* FearGreedCalculator and the fear-and-greed influence of SignalGenerator *)
(* (src/core/signal_generator.py), with the thresholds of TradingConfig    *)
(* (src/config.py).                                                        *)
(***************************************************************************)
EXTREME_FEAR_THRESHOLD == 25
FEAR_THRESHOLD == 45
NEUTRAL_THRESHOLD == 55
GREED_THRESHOLD == 75
EXTREME_GREED_THRESHOLD == 90

\* sentiments.values() as a list
RECURSIVE ValuesOf(_, _)
ValuesOf(sentiments, keys) ==
    IF keys = {} THEN <<>>
    ELSE LET k == CHOOSE k \in keys : TRUE
         IN  <<sentiments[k]>> \o ValuesOf(sentiments, keys \ {k})

Values(sentiments) == ValuesOf(sentiments, DOMAIN sentiments)

\* FearGreedCalculator._calculate_sentiment_component
calculate_sentiment_component(sentiments) ==
    LET values == Values(sentiments)
        weights == Column(values, LAMBDA v : RMul(FromInt(v.total_mentions), v.confidence))
        weighted_sentiment == Sum([i \in DOMAIN values |->
                                      RMul(values[i].volume_weighted_score, weights[i])])
        total_weight == Sum(weights)
    IN  IF values = <<>> THEN Zero
        ELSE IF RGt(total_weight, Zero)
        THEN RDiv(weighted_sentiment, total_weight)
        ELSE Zero

\* FearGreedCalculator._calculate_momentum_component
calculate_momentum_component(sentiments) ==
    IF Values(sentiments) = <<>> THEN Zero
    ELSE Mean(Column(Values(sentiments), LAMBDA v : v.momentum))

\* max(abs(p) for p in products) of a non-empty list
RECURSIVE MaxAbs(_)
MaxAbs(products) ==
    LET a == <<Abs(Head(products)[1]), Head(products)[2]>>
    IN  IF Len(products) = 1 THEN a ELSE RMax(a, MaxAbs(Tail(products)))

\* FearGreedCalculator._calculate_volume_component
calculate_volume_component(sentiments) ==
    LET volume_sentiment_product ==
            Column(Values(sentiments),
                   LAMBDA v : RMul(FromInt(v.total_mentions), v.sentiment_score))
    IN  IF volume_sentiment_product = <<>> THEN Zero
        ELSE LET max_product == MaxAbs(volume_sentiment_product)
             IN  IF RGt(max_product, Zero)
                 THEN RDiv(Mean(volume_sentiment_product), max_product)
                 ELSE Zero

\* FearGreedCalculator._calculate_correlation_component
calculate_correlation_component == Zero

\* _classify_fear_greed with exclusive upper bounds
classify_fear_greed_exclusive(score) ==
    IF RLt(score, FromInt(EXTREME_FEAR_THRESHOLD)) THEN "Extreme Fear"
    ELSE IF RLt(score, FromInt(FEAR_THRESHOLD)) THEN "Fear"
    ELSE IF RLt(score, FromInt(NEUTRAL_THRESHOLD)) THEN "Neutral"
    ELSE IF RLt(score, FromInt(GREED_THRESHOLD)) THEN "Greed"
    ELSE "Extreme Greed"

\* FearGreedCalculator._classify_fear_greed
classify_fear_greed(score) ==
    IF RLe(score, FromInt(EXTREME_FEAR_THRESHOLD)) THEN "Extreme Fear"
    ELSE IF RLe(score, FromInt(FEAR_THRESHOLD)) THEN "Fear"
    ELSE IF RLe(score, FromInt(NEUTRAL_THRESHOLD)) THEN "Neutral"
    ELSE IF RLe(score, FromInt(GREED_THRESHOLD)) THEN "Greed"
    ELSE "Extreme Greed"

\* "Weighted average" and "Normalize to 0-100 scale" of
\* calculate_fear_greed_index
OverallScore(sentiment, momentum, volume, correlation) ==
    LET weighted == RAdd(RAdd(RAdd(RMul(sentiment, <<2, 5>>),
                                   RMul(momentum, <<1, 4>>)),
                              RMul(volume, <<1, 5>>)),
                         RMul(correlation, <<3, 20>>))
        scaled == RMul(RAdd(weighted, FromInt(1)), FromInt(50))
    IN  RMax(Zero, RMin(FromInt(100), scaled))

\* FearGreedCalculator.calculate_fear_greed_index (without its timestamp,
\* the wall clock)
calculate_fear_greed_index(aggregated_sentiments) ==
    LET sentiment_component == calculate_sentiment_component(aggregated_sentiments)
        momentum_component == calculate_momentum_component(aggregated_sentiments)
        volume_component == calculate_volume_component(aggregated_sentiments)
        correlation_component == calculate_correlation_component
        overall_score == OverallScore(sentiment_component, momentum_component,
                                      volume_component, correlation_component)
    IN  [sentiment_component |-> sentiment_component,
         momentum_component |-> momentum_component,
         volume_component |-> volume_component,
         correlation_component |-> correlation_component,
         overall_score |-> overall_score,
         classification |-> classify_fear_greed(overall_score)]

\* SignalGenerator._calculate_fear_greed_influence
calculate_fear_greed_influence(fg_score) ==
    IF RLe(fg_score, FromInt(EXTREME_FEAR_THRESHOLD)) THEN <<13, 10>>
    ELSE IF RLe(fg_score, FromInt(FEAR_THRESHOLD)) THEN <<11, 10>>
    ELSE IF RGe(fg_score, FromInt(EXTREME_GREED_THRESHOLD)) THEN <<7, 10>>
    ELSE IF RGe(fg_score, FromInt(GREED_THRESHOLD)) THEN <<9, 10>>
    ELSE FromInt(1)

(***************************************************************************)
(* SignalGenerator of src/core/signal_generator.py, with the windows of    *)
(* ProcessingConfig and the signal parameters of TradingConfig             *)
(* (src/config.py).  A signal is the record of the fields computed from    *)
(* the aggregations; reasoning and supporting_data are left out.           *)
(***************************************************************************)
SHORT_TERM_WINDOW == 300
MEDIUM_TERM_WINDOW == 3600
LONG_TERM_WINDOW == 86400

MIN_SIGNAL_CONFIDENCE == <<7, 10>>
MAX_POSITION_SIZE == <<1, 10>>
STOP_LOSS_PERCENTAGE == <<1, 20>>
TAKE_PROFIT_PERCENTAGE == <<3, 20>>

\* the mock current price of _calculate_price_targets
MockCurrentPrice == 50000

\* abs() of a rational
RAbs(a) == <<Abs(a[1]), a[2]>>

\* the keys of a dict as a list
RECURSIVE KeysOf(_)
KeysOf(keys) ==
    IF keys = {} THEN <<>>
    ELSE LET k == CHOOSE k \in keys : TRUE
         IN  <<k>> \o KeysOf(keys \ {k})

\* SignalGenerator._get_tracked_assets
get_tracked_assets(sentiment_data) ==
    IF DOMAIN sentiment_data = {}
    THEN <<"BTC", "ETH", "AAPL", "TSLA", "MARKET">>
    ELSE KeysOf(DOMAIN sentiment_data)

\* sentiments of _generate_asset_signal for the three timeframes: the list
\* of what get_aggregated_sentiment returned for each; the dict of the code
\* holds the entries that are not None, under their timeframe
SentimentsOf(sentiment_data, asset, timeframes, now) ==
    << get_aggregated_sentiment(sentiment_data, asset, timeframes[1], now),
       get_aggregated_sentiment(sentiment_data, asset, timeframes[2], now),
       get_aggregated_sentiment(sentiment_data, asset, timeframes[3], now) >>

\* the entries of sentiments that are in the dict under the key window
UnderKey(sentiments, window) ==
    SelectSeq(sentiments, LAMBDA s : s.present /\ s.window_size = window)

\* "window in sentiments"
HasKey(sentiments, window) == UnderKey(sentiments, window) # <<>>

\* sentiments[window] for a key of the dict
AtKey(sentiments, window) == UnderKey(sentiments, window)[1]

\* "Multi-timeframe confirmation" of _analyze_signal_conditions
Confirmation(sentiments, sentiment_score) ==
    IF HasKey(sentiments, MEDIUM_TERM_WINDOW)
    THEN IF RGt(sentiment_score, Zero)
             = RGt(AtKey(sentiments, MEDIUM_TERM_WINDOW).sentiment_score, Zero)
         THEN <<6, 5>> ELSE <<4, 5>>
    ELSE FromInt(1)

\* "Signal type determination" of _analyze_signal_conditions
SignalTypeOf(combined_score) ==
    IF RGt(combined_score, <<3, 10>>) THEN BUY
    ELSE IF RLt(combined_score, <<-3, 10>>) THEN SELL
    ELSE HOLD

\* _analyze_signal_conditions when the short-term aggregation is there
AnalyzeShortTerm(short_term, confirmation, fg_influence) ==
    LET sentiment_score == short_term.volume_weighted_score
        strength == RMin(FromInt(1),
                         RMul(RMul(RAbs(sentiment_score), confirmation), fg_influence))
    IN  [strength |-> strength,
         signal_type |-> SignalTypeOf(RAdd(sentiment_score,
                                           RMul(short_term.momentum, <<1, 2>>))),
         confidence |-> RMin(RMul(RMul(short_term.confidence, confirmation), strength),
                             FromInt(1))]

\* SignalGenerator._analyze_signal_conditions
analyze_signal_conditions(sentiments, fear_greed) ==
    IF ~HasKey(sentiments, SHORT_TERM_WINDOW)
    THEN [signal_type |-> HOLD, confidence |-> Zero, strength |-> Zero]
    ELSE AnalyzeShortTerm(
             AtKey(sentiments, SHORT_TERM_WINDOW),
             Confirmation(sentiments,
                          AtKey(sentiments, SHORT_TERM_WINDOW).volume_weighted_score),
             calculate_fear_greed_influence(fear_greed.overall_score))

\* SignalGenerator._calculate_position_size
calculate_position_size(confidence, strength) ==
    RMul(MAX_POSITION_SIZE, RMul(confidence, strength))

\* SignalGenerator._calculate_price_targets; none tells that the three
\* levels are None
calculate_price_targets(signal_type, strength) ==
    LET current_price == FromInt(MockCurrentPrice)
        volatility_adjustment == RMul(strength, <<1, 10>>)
        move == RMul(TAKE_PROFIT_PERCENTAGE, volatility_adjustment)
    IN  IF signal_type = HOLD
        THEN [none |-> TRUE,
              target_price |-> None, stop_loss |-> None, take_profit |-> None]
        ELSE IF signal_type = BUY
        THEN [none |-> FALSE,
              target_price |-> RMul(current_price, RAdd(FromInt(1), move)),
              stop_loss |-> RMul(current_price, RSub(FromInt(1), STOP_LOSS_PERCENTAGE)),
              take_profit |-> RMul(current_price, RAdd(FromInt(1), move))]
        ELSE [none |-> FALSE,
              target_price |-> RMul(current_price, RSub(FromInt(1), move)),
              stop_loss |-> RMul(current_price, RAdd(FromInt(1), STOP_LOSS_PERCENTAGE)),
              take_profit |-> RMul(current_price, RSub(FromInt(1), move))]

\* SignalGenerator._calculate_risk_reward on the levels of targets, with
\* target_price as the entry price; a level that is None or 0 is not truthy
calculate_risk_reward(targets) ==
    IF targets.none THEN None
    ELSE IF \/ targets.stop_loss = Zero \/ targets.take_profit = Zero
            \/ targets.target_price = Zero
    THEN None
    ELSE IF RGt(RAbs(RSub(targets.target_price, targets.stop_loss)), Zero)
    THEN RDiv(RAbs(RSub(targets.take_profit, targets.target_price)),
              RAbs(RSub(targets.target_price, targets.stop_loss)))
    ELSE None

\* the test of _generate_asset_signal that lets every confidence pass
BelowMinimum_never(confidence) == FALSE

\* "if confidence < trading_config.MIN_SIGNAL_CONFIDENCE" of
\* _generate_asset_signal
BelowMinimum(confidence) == RLt(confidence, MIN_SIGNAL_CONFIDENCE)

\* the TradingSignal _generate_asset_signal builds
BuildSignal(asset, now, analysis, targets) ==
    [asset |-> asset,
     timestamp |-> now,
     signal_type |-> analysis.signal_type,
     confidence |-> analysis.confidence,
     strength |-> analysis.strength,
     target_price |-> targets.target_price,
     stop_loss |-> targets.stop_loss,
     take_profit |-> targets.take_profit,
     risk_reward_ratio |-> calculate_risk_reward(targets),
     position_size |-> calculate_position_size(analysis.confidence, analysis.strength)]

\* no signal (None) of _generate_asset_signal
NoSignal == [asset |-> NoAsset]

\* _generate_asset_signal from the analysis on: None, or the signal
SignalFrom(asset, now, analysis) ==
    IF BelowMinimum(analysis.confidence) THEN NoSignal
    ELSE BuildSignal(asset, now, analysis,
                     calculate_price_targets(analysis.signal_type, analysis.strength))

\* the argument _generate_asset_signal gives to calculate_fear_greed_index
IndexArgument(asset, sentiments, timeframes) ==
    IF HasKey(sentiments, timeframes[1])
    THEN [a \in {asset} |-> AtKey(sentiments, timeframes[1])]
    ELSE <<>>

\* _generate_asset_signal from the sentiments on: the index is calculated
\* first, the analysis is made with it
SignalOfSentiments(asset, now, sentiments, timeframes) ==
    IF \A i \in DOMAIN sentiments : ~sentiments[i].present THEN NoSignal
    ELSE CHOOSE signal \in
             { SignalFrom(asset, now, analyze_signal_conditions(sentiments, fear_greed)) :
                 fear_greed \in { calculate_fear_greed_index(
                                      IndexArgument(asset, sentiments, timeframes)) } } :
             TRUE

\* SignalGenerator._generate_asset_signal at wall-clock time now: None, or
\* the signal, which is also stored
generate_asset_signal(sentiment_data, asset, timeframes, now) ==
    SignalOfSentiments(asset, now,
                       SentimentsOf(sentiment_data, asset, timeframes, now),
                       timeframes)

\* the generator after "Store signal"
StoreSignal(gen, signal) ==
    IF signal = NoSignal THEN gen
    ELSE [signals |-> Append(gen.signals, signal),
          signal_history |-> DequeAppend(gen.signal_history, signal),
          last_signals |-> [a \in DOMAIN gen.last_signals \cup {signal.asset} |->
                               IF a = signal.asset THEN signal
                               ELSE gen.last_signals[a]]]

\* the loop of generate_signals over the tracked assets, from the i-th on;
\* gen holds signals, signal_history and last_signals
RECURSIVE GenerateLoop(_, _, _, _, _)
GenerateLoop(gen, sentiment_data, tracked, i, now) ==
    IF i > Len(tracked) THEN gen
    ELSE GenerateLoop(
             StoreSignal(gen, generate_asset_signal(
                                  sentiment_data, tracked[i],
                                  <<SHORT_TERM_WINDOW, MEDIUM_TERM_WINDOW,
                                    LONG_TERM_WINDOW>>, now)),
             sentiment_data, tracked, i + 1, now)

\* SignalGenerator.generate_signals at wall-clock time now
generate_signals(sentiment_data, signal_history, last_signals, now) ==
    GenerateLoop([signals |-> <<>>, signal_history |-> signal_history,
                  last_signals |-> last_signals],
                 sentiment_data, get_tracked_assets(sentiment_data), 1, now)


(***************************************************************************)
(* The state: the fields of one Portfolio, the timestamp of the latest     *)
(* call, the number of calls made and the latest call with its outcome;    *)
(* the arguments of the run_backtest invocations, what they returned and   *)
(* the invocation under way (its portfolio and current_date) with the      *)
(* calls the latest invocation made on its portfolio;                      *)
(* the deques of one SentimentAggregator, every entry ever appended for    *)
(* each asset, the number of add_sentiment_data calls and the latest call  *)
(* on the aggregator; the latest call of the index and influence           *)
(* calculations; signal_history and last_signals of one SignalGenerator    *)
(* with the number of calls on it and the latest call.                     *)
(***************************************************************************)
VARIABLES initial_capital, current_capital, positions, closed_positions,
          equity_curve, daily_returns, max_drawdown, peak_equity,
          clock, calls, last,
          bt_args, bt_results, bt_run, bt_log,
          sentiment_data, agg_added, agg_calls, agg_last,
          fg_last,
          signal_history, last_signals, sg_calls, sg_last,
          processing_queue, results_queue, signals_queue, is_processing, is_running,
          loop_pc, batch, proc_added, requeued,
          manager_is_running, source_is_running, tasks, received, propagated

pfvars == <<initial_capital, current_capital, positions, closed_positions,
            equity_curve, daily_returns, max_drawdown, peak_equity>>

\* the state of the callers of one Portfolio
callvars == <<clock, calls, last>>

\* the state of the run_backtest invocations
btvars == <<bt_args, bt_results, bt_run, bt_log>>

\* the state of the SentimentAggregator and its callers
aggvars == <<sentiment_data, agg_added, agg_calls, agg_last>>

\* the state of the callers of the index and influence calculations
fgvars == <<fg_last>>

\* the state of one SignalGenerator (with the aggregator it owns in
\* sentiment_data), the number of calls made on it and the latest call
sgvars == <<signal_history, last_signals, sg_calls, sg_last>>

\* the state of one SentimentEngine with its SentimentProcessor: the queues,
\* the two flags, where each loop stands, the batch _batch_process holds,
\* the number of items handed to add_data and the items _batch_process has
\* put back
procvars == <<processing_queue, results_queue, signals_queue, is_processing,
              is_running, loop_pc, batch, proc_added, requeued>>

\* the state of one DataIngestionManager: its flag, the flags of its
\* sources, its tasks, the number of items each task has received, and
\* whether an exception has left _process_source_data
ingvars == <<manager_is_running, source_is_running, tasks, received, propagated>>

vars == <<initial_capital, current_capital, positions, closed_positions,
          equity_curve, daily_returns, max_drawdown, peak_equity,
          clock, calls, last,
          bt_args, bt_results, bt_run, bt_log,
          sentiment_data, agg_added, agg_calls, agg_last,
          fg_last,
          signal_history, last_signals, sg_calls, sg_last,
          processing_queue, results_queue, signals_queue, is_processing, is_running,
          loop_pc, batch, proc_added, requeued,
          manager_is_running, source_is_running, tasks, received, propagated>>

\* the Portfolio object as a value
Pf ==
    [initial_capital |-> initial_capital, current_capital |-> current_capital,
     positions |-> positions, closed_positions |-> closed_positions,
     equity_curve |-> equity_curve, daily_returns |-> daily_returns,
     max_drawdown |-> max_drawdown, peak_equity |-> peak_equity]

\* the Portfolio object in the next state
PfNext ==
    [initial_capital |-> initial_capital', current_capital |-> current_capital',
     positions |-> positions', closed_positions |-> closed_positions',
     equity_curve |-> equity_curve', daily_returns |-> daily_returns',
     max_drawdown |-> max_drawdown', peak_equity |-> peak_equity']

\* the fields of the Portfolio object become those of pf
Becomes(pf) ==
    /\ initial_capital' = pf.initial_capital
    /\ current_capital' = pf.current_capital
    /\ positions' = pf.positions
    /\ closed_positions' = pf.closed_positions
    /\ equity_curve' = pf.equity_curve
    /\ daily_returns' = pf.daily_returns
    /\ max_drawdown' = pf.max_drawdown
    /\ peak_equity' = pf.peak_equity

NoCall == [op |-> "init"]

\* no run_backtest invocation
NoArgs == [signals |-> <<>>]

\* a new Portfolio that no caller has used yet
PortfolioInit ==
    /\ initial_capital = NewPortfolio(DefaultCapital).initial_capital
    /\ current_capital = NewPortfolio(DefaultCapital).current_capital
    /\ positions = NewPortfolio(DefaultCapital).positions
    /\ closed_positions = NewPortfolio(DefaultCapital).closed_positions
    /\ equity_curve = NewPortfolio(DefaultCapital).equity_curve
    /\ daily_returns = NewPortfolio(DefaultCapital).daily_returns
    /\ max_drawdown = NewPortfolio(DefaultCapital).max_drawdown
    /\ peak_equity = NewPortfolio(DefaultCapital).peak_equity
    /\ clock = 0
    /\ calls = 0
    /\ last = NoCall

\* no run_backtest invocation is under way
NoRun == [pc |-> "idle"]

\* no run_backtest invocation is made
BacktestIdle ==
    /\ bt_args = NoArgs
    /\ bt_results = <<>>
    /\ bt_run = NoRun
    /\ bt_log = <<>>

\* SentimentAggregator.__init__: no asset has a deque
AggregatorInit ==
    /\ sentiment_data = <<>>
    /\ agg_added = <<>>
    /\ agg_calls = 0
    /\ agg_last = NoCall

\* no index or influence was calculated
FearGreedIdle == fg_last = NoCall

\* SignalGenerator.__init__, and no caller has used the generator yet
SignalsIdle ==
    /\ signal_history = <<>>
    /\ last_signals = <<>>
    /\ sg_calls = 0
    /\ sg_last = NoCall

\* the loops of SentimentProcessor and of SentimentEngine
Loops ==
    {"_process_data", "_batch_process",
     "_process_data_pipeline", "_generate_signals_pipeline"}

\* SentimentEngine.__init__ with SentimentProcessor.__init__: empty queues,
\* both flags False, no task created
ProcessorIdle ==
    /\ processing_queue = <<>>
    /\ results_queue = <<>>
    /\ signals_queue = <<>>
    /\ is_processing = FALSE
    /\ is_running = FALSE
    /\ loop_pc = [loop \in Loops |-> "not started"]
    /\ batch = <<>>
    /\ proc_added = 0
    /\ requeued = {}

\* the sources of DataIngestionManager.__init__, in the order of the dict
Sources == <<"twitter", "reddit", "news", "financial">>

\* DataIngestionManager.__init__ with DataIngestionBase.__init__ of every
\* source: nothing runs, no task
IngestionIdle ==
    /\ manager_is_running = FALSE
    /\ source_is_running = [i \in DOMAIN Sources |-> FALSE]
    /\ tasks = [i \in DOMAIN Sources |-> "none"]
    /\ received = [i \in DOMAIN Sources |-> 0]
    /\ propagated = FALSE

Init ==
    /\ PortfolioInit
    /\ BacktestIdle
    /\ AggregatorInit
    /\ FearGreedIdle
    /\ IngestionIdle
    /\ ProcessorIdle
    /\ SignalsIdle

\* a caller offers a signal for an asset at a price
AddSignal ==
    /\ calls < MaxCalls
    /\ \E asset \in Assets, tpl \in SignalTemplates, price \in Prices :
         LET signal == Signal(asset, clock, tpl)
             r == add_signal(Pf, signal, price)
         IN  /\ Becomes(r.pf)
             /\ clock' = clock
             /\ last' = [op |-> "add_signal", signal |-> signal,
                         current_price |-> price, result |-> r.result]
    /\ calls' = calls + 1
    /\ UNCHANGED <<btvars, aggvars, fgvars, sgvars, procvars, ingvars>>

\* a caller advances the portfolio with a market snapshot
UpdatePositions ==
    /\ calls < MaxCalls
    /\ \E dt \in TimeSteps : \E market_data \in Snapshots(clock + dt) :
         LET r == update_positions(Pf, market_data)
         IN  /\ Becomes(r.pf)
             /\ clock' = clock + dt
             /\ last' = [op |-> "update_positions", market_data |-> market_data,
                         result |-> r.result]
    /\ calls' = calls + 1
    /\ UNCHANGED <<btvars, aggvars, fgvars, sgvars, procvars, ingvars>>

Next == AddSignal \/ UpdatePositions

Spec == Init /\ [][Next]_vars

(***************************************************************************)
(* Invocations of run_backtest with the same arguments.                    *)
(***************************************************************************)
\* the order in which the signals of a list name the assets
AssetOrder == <<"A", "B">>

\* signal_type, position_size, stop_loss, take_profit of the signals of the
\* runs: with levels at the lowest and highest price, and without levels
RunTemplates ==
    { [signal_type |-> BUY, position_size |-> <<1, 10>>,
       stop_loss |-> 40, take_profit |-> 120],
      [signal_type |-> SELL, position_size |-> <<1, 2>>,
       stop_loss |-> 120, take_profit |-> 40],
      [signal_type |-> BUY, position_size |-> <<1, 10>>,
       stop_loss |-> None, take_profit |-> None] }

\* start_date of the runs
BacktestStart == 0

\* end_date of the runs: the start and one step later
BacktestEnds == {BacktestStart, BacktestStart + StepMinutes}

\* number of run_backtest invocations with the same arguments
Invocations == 2

\* the list of signals, timestamped at the start, for the assets of S
SignalsOf(S, tpl) ==
    LET order == SelectSeq(AssetOrder, LAMBDA a : a \in S)
    IN  [i \in DOMAIN order |-> Signal(order[i], BacktestStart, tpl[order[i]])]

\* a signal without stop_loss and take_profit
Unlevelled(asset, timestamp, signal_type, position_size) ==
    Signal(asset, timestamp,
           [signal_type |-> signal_type, position_size |-> position_size,
            stop_loss |-> None, take_profit |-> None])

\* the arguments of the runs whose signals are spread over the steps: one
\* asset bought again at each of four steps; signals of two assets out of
\* timestamp order, with timestamps between two steps and after end_date,
\* and an end_date between two steps; a signal for an asset that is not
\* among the symbols given
ScheduledArgs ==
    { [signals |-> << Unlevelled("A", BacktestStart, BUY, <<1, 2>>),
                      Unlevelled("A", BacktestStart + StepMinutes, BUY, <<1, 2>>),
                      Unlevelled("A", BacktestStart + 2 * StepMinutes, BUY, <<1, 2>>),
                      Unlevelled("A", BacktestStart + 3 * StepMinutes, BUY, <<1, 2>>) >>,
       start_date |-> BacktestStart, end_date |-> BacktestStart + 3 * StepMinutes,
       initial_capital |-> DefaultCapital, symbols |-> {}],
      [signals |-> << Unlevelled("A", BacktestStart + StepMinutes, BUY, <<1, 10>>),
                      Unlevelled("B", BacktestStart + StepMinutes, BUY, <<1, 10>>),
                      Unlevelled("A", BacktestStart + StepMinutes - 2, SELL, <<1, 2>>),
                      Unlevelled("B", BacktestStart + 4 * StepMinutes, BUY, <<1, 10>>),
                      Unlevelled("A", BacktestStart, SELL, <<1, 2>>) >>,
       start_date |-> BacktestStart, end_date |-> BacktestStart + StepMinutes + 2,
       initial_capital |-> DefaultCapital, symbols |-> {}],
      [signals |-> << Unlevelled("A", BacktestStart, BUY, <<1, 10>>),
                      Unlevelled("B", BacktestStart, BUY, <<1, 10>>) >>,
       start_date |-> BacktestStart, end_date |-> BacktestStart,
       initial_capital |-> DefaultCapital, symbols |-> {"A"}] }

\* the arguments of run_backtest
BacktestArgs ==
    { [signals |-> SignalsOf(S, tpl), start_date |-> BacktestStart,
       end_date |-> end, initial_capital |-> DefaultCapital, symbols |-> symbols] :
        S \in SUBSET Assets, tpl \in [Assets -> RunTemplates],
        end \in BacktestEnds, symbols \in {{}, Assets} }
    \cup ScheduledArgs

\* the prices MockMarketData can generate for symbols at one time
MarketPrices(symbols) == [symbols -> Prices]

InitBacktest ==
    /\ PortfolioInit
    /\ bt_args \in BacktestArgs
    /\ bt_results = <<>>
    /\ bt_run = NoRun
    /\ bt_log = <<>>
    /\ AggregatorInit
    /\ FearGreedIdle
    /\ IngestionIdle
    /\ ProcessorIdle
    /\ SignalsIdle

\* run_backtest is invoked with the arguments bt_args: "Initialize
\* components"
StartBacktest ==
    /\ bt_run = NoRun
    /\ Len(bt_results) < Invocations
    /\ bt_run' = [pc |-> "running",
                  symbols |-> RunSymbols(bt_args.signals, bt_args.symbols),
                  portfolio |-> NewPortfolio(bt_args.initial_capital),
                  current_date |-> bt_args.start_date]
    /\ bt_log' = <<>>
    /\ UNCHANGED <<bt_args, bt_results, pfvars, callvars, aggvars, fgvars, sgvars, procvars, ingvars>>

\* the end of one pass: an exception of add_signal or update_positions ends
\* the invocation, otherwise "current_date += timedelta(minutes=5)"
EndOfStep(step) ==
    /\ bt_log' = step.log
    /\ IF step.raised
       THEN /\ bt_results' = Append(bt_results, [raised |-> "ZeroDivisionError"])
            /\ bt_run' = NoRun
       ELSE /\ bt_results' = bt_results
            /\ bt_run' = [bt_run EXCEPT !.portfolio = step.pf,
                                        !.current_date = @ + StepMinutes]

\* one pass of the simulation loop
BacktestStep ==
    /\ bt_run.pc = "running"
    /\ bt_run.current_date <= bt_args.end_date
    /\ \E prices \in MarketPrices(bt_run.symbols) :
         EndOfStep(SimulationStep(bt_run.portfolio, bt_log, bt_args.signals,
                                  CurrentMarketData(bt_run.symbols, prices,
                                                    bt_run.current_date)))
    /\ UNCHANGED <<bt_args, pfvars, callvars, aggvars, fgvars, sgvars, procvars, ingvars>>

\* the loop is over: run_backtest returns the results
FinishBacktest ==
    /\ bt_run.pc = "running"
    /\ bt_run.current_date > bt_args.end_date
    /\ bt_results' = Append(bt_results,
                            [raised |-> "",
                             result |-> calculate_results(bt_run.portfolio,
                                                          bt_args.start_date,
                                                          bt_args.end_date)])
    /\ bt_run' = NoRun
    /\ UNCHANGED <<bt_args, bt_log, pfvars, callvars, aggvars, fgvars, sgvars, procvars, ingvars>>

NextBacktest == StartBacktest \/ BacktestStep \/ FinishBacktest

SpecBacktest == InitBacktest /\ [][NextBacktest]_vars

(***************************************************************************)
(* Calls on one SentimentAggregator.                                       *)
(***************************************************************************)
\* metadata without likes, retweets or comments
NoMetadata == [likes |-> None, retweets |-> None, comments |-> None]

\* a ProcessedData (the fields the aggregator reads) of relevance 1
Observation(timestamp, score, source) ==
    [raw_data |-> [timestamp |-> timestamp, source |-> source,
                   metadata |-> NoMetadata],
     sentiment |-> [score |-> score, confidence |-> <<9, 10>>],
     relevance_score |-> FromInt(1)]

\* the observations delivered: at 0s, 30s and 50s with scores 0.8, 0.6, -0.2
Observations ==
    { Observation(0, <<4, 5>>, "twitter"),
      Observation(30, <<3, 5>>, "news"),
      Observation(50, <<-1, 5>>, "twitter") }

\* the financial_entities the observations come with
EntityLists == { <<"bitcoin">>, <<"BTC", "bitcoin", "Tsla">>, <<"gold">> }

\* the assets queried; ETH is never mentioned
QueryAssets == {"BTC", "TSLA", "MARKET", "ETH"}

\* the window of the queries, seconds
Windows == {60}

\* the wall-clock times of the queries, seconds
NowValues == {60, 90}

\* number of add_sentiment_data calls
MaxAdds == 4

\* every entry appended for the assets, from the i-th asset on
RECURSIVE LogToAssets(_, _, _, _)
LogToAssets(added, assets, i, item) ==
    IF i > Len(assets) THEN added
    ELSE LET asset == assets[i]
         IN  LogToAssets(
                 [a \in DOMAIN added \cup {asset} |->
                     IF a = asset THEN Append(DequeOf(added, asset), item)
                     ELSE added[a]],
                 assets, i + 1, item)

InitAggregator ==
    /\ PortfolioInit
    /\ BacktestIdle
    /\ AggregatorInit
    /\ FearGreedIdle
    /\ IngestionIdle
    /\ ProcessorIdle
    /\ SignalsIdle

\* a producer delivers an observation
AddSentimentData ==
    /\ agg_calls < MaxAdds
    /\ \E observation \in Observations, financial_entities \in EntityLists :
         LET data == [raw_data |-> observation.raw_data,
                      sentiment |-> observation.sentiment,
                      relevance_score |-> observation.relevance_score,
                      financial_entities |-> financial_entities]
         IN  /\ sentiment_data' = add_sentiment_data(sentiment_data, data)
             /\ agg_added' = LogToAssets(agg_added, extract_assets(data), 1,
                                         SentimentItem(data))
             /\ agg_last' = [op |-> "add_sentiment_data", data |-> data]
    /\ agg_calls' = agg_calls + 1
    /\ UNCHANGED <<pfvars, callvars, btvars, fgvars, sgvars, procvars, ingvars>>

\* the evaluation loop queries an asset at wall-clock time now
GetAggregatedSentiment ==
    /\ \E asset \in QueryAssets, window_size \in Windows, now \in NowValues :
         agg_last' = [op |-> "get_aggregated_sentiment", asset |-> asset,
                      window_size |-> window_size, now |-> now,
                      result |-> get_aggregated_sentiment(sentiment_data, asset,
                                                          window_size, now)]
    /\ UNCHANGED <<sentiment_data, agg_added, agg_calls>>
    /\ UNCHANGED <<pfvars, callvars, btvars, fgvars, sgvars, procvars, ingvars>>

NextAggregator == AddSentimentData \/ GetAggregatedSentiment

SpecAggregator == InitAggregator /\ [][NextAggregator]_vars

(***************************************************************************)
(* Calculations of the fear-and-greed index and of its influence.          *)
(***************************************************************************)
\* the assets of the aggregations given to calculate_fear_greed_index
IndexAssets == {"BTC", "ETH"}

\* the AggregatedSentiment values (the fields the calculator reads)
IndexSentiments ==
    [total_mentions : {0, 4, 5},
     confidence : { <<9, 10>> },
     volume_weighted_score : { <<-1, 1>>, <<1, 2>>, <<1, 1>> },
     momentum : { <<-2, 1>>, <<1, 5>>, <<2, 1>> },
     sentiment_score : { <<-1, 1>>, <<0, 1>>, <<1, 1>> }]

\* the scores given to _calculate_fear_greed_influence: the thresholds,
\* their neighbours, the ends of the scale and 63.5
InfluenceScores ==
    { FromInt(n) : n \in {0, 24, 25, 26, 44, 45, 46, 54, 55, 56,
                          74, 75, 76, 89, 90, 91, 100} } \cup { <<127, 2>> }

InitFearGreed ==
    /\ PortfolioInit
    /\ BacktestIdle
    /\ AggregatorInit
    /\ FearGreedIdle
    /\ IngestionIdle
    /\ ProcessorIdle
    /\ SignalsIdle

\* the index is calculated for the aggregations of some assets (the
\* calculation keeps no state: one call is followed)
CalculateFearGreedIndex ==
    /\ fg_last = NoCall
    /\ \E assets \in SUBSET IndexAssets :
         \E aggregated_sentiments \in [assets -> IndexSentiments] :
            fg_last' = [op |-> "calculate_fear_greed_index",
                        aggregated_sentiments |-> aggregated_sentiments,
                        result |-> calculate_fear_greed_index(aggregated_sentiments)]
    /\ UNCHANGED <<pfvars, callvars, btvars, aggvars, sgvars, procvars, ingvars>>

\* the influence of a score is calculated
CalculateFearGreedInfluence ==
    /\ fg_last = NoCall
    /\ \E fg_score \in InfluenceScores :
         fg_last' = [op |-> "calculate_fear_greed_influence",
                     fg_score |-> fg_score,
                     result |-> calculate_fear_greed_influence(fg_score)]
    /\ UNCHANGED <<pfvars, callvars, btvars, aggvars, sgvars, procvars, ingvars>>

NextFearGreed == CalculateFearGreedIndex \/ CalculateFearGreedInfluence

SpecFearGreed == InitFearGreed /\ [][NextFearGreed]_vars

(***************************************************************************)
(* Calls on one SignalGenerator.                                           *)
(***************************************************************************)
\* the observations delivered to the generator: of an hour ago and of 100
\* seconds ago at the first evaluation, with scores 0.8 and -0.2
SignalObservations ==
    { Observation(t, score, "twitter") :
        t \in {0, 3500}, score \in { <<4, 5>>, <<-1, 5>> } }

\* the financial_entities the observations come with
SignalEntityLists == { <<"bitcoin">>, <<"Tsla">> }

\* the wall-clock times of the evaluations, seconds
EvaluationTimes == {3600, 3700}

\* number of calls on the generator
MaxSignalCalls == 4

InitSignals ==
    /\ PortfolioInit
    /\ BacktestIdle
    /\ AggregatorInit
    /\ FearGreedIdle
    /\ IngestionIdle
    /\ ProcessorIdle
    /\ SignalsIdle

\* add_processed_data: the processed observation goes to the aggregator
AddProcessedData ==
    /\ sg_calls < MaxSignalCalls
    /\ \E observation \in SignalObservations, financial_entities \in SignalEntityLists :
         LET data == [raw_data |-> observation.raw_data,
                      sentiment |-> observation.sentiment,
                      relevance_score |-> observation.relevance_score,
                      financial_entities |-> financial_entities]
         IN  /\ sentiment_data' = add_sentiment_data(sentiment_data, data)
             /\ sg_last' = [op |-> "add_processed_data", data |-> data]
    /\ sg_calls' = sg_calls + 1
    /\ UNCHANGED <<signal_history, last_signals, agg_added, agg_calls, agg_last>>
    /\ UNCHANGED <<pfvars, callvars, btvars, fgvars, procvars, ingvars>>

\* what generate_signals leaves: the signals are returned
Generated(gen, now) ==
    /\ signal_history' = gen.signal_history
    /\ last_signals' = gen.last_signals
    /\ sg_last' = [op |-> "generate_signals", now |-> now, result |-> gen.signals]

\* the evaluation loop calls generate_signals at wall-clock time now
GenerateSignals ==
    /\ sg_calls < MaxSignalCalls
    /\ \E now \in EvaluationTimes :
         Generated(generate_signals(sentiment_data, signal_history, last_signals, now),
                   now)
    /\ sg_calls' = sg_calls + 1
    /\ UNCHANGED <<aggvars, pfvars, callvars, btvars, fgvars, procvars, ingvars>>

NextSignals == AddProcessedData \/ GenerateSignals

SpecSignals == InitSignals /\ [][NextSignals]_vars

(***************************************************************************)
(* One SentimentEngine (src/main.py) with its SentimentProcessor            *)
(* (src/core/sentiment_analyzer.py): producers call add_data, and the       *)
(* event loop runs the four loops.  A step of a loop goes from one await    *)
(* to the next; an item is an identifier, a ProcessedData the record of     *)
(* its raw_data.  The engine is started once and stopped at most once.      *)
(***************************************************************************)
\* ProcessingConfig.BATCH_SIZE
BATCH_SIZE == 32

\* number of items the producers hand to add_data
MaxItems == 2

\* "while self.is_processing" once the loop has reached its test: the loop
\* goes on to next, or ends
WhileIsProcessing(next) == IF is_processing THEN next ELSE "done"

\* "while self.is_running"
WhileIsRunning(next) == IF is_running THEN next ELSE "done"

\* the loop named loop moves to pc
Goto(loop, pc) == loop_pc' = [loop_pc EXCEPT ![loop] = pc]

\* the puts of _batch_process that forget the batch
process_single_items_dropped(queue, items) == queue

\* "tasks = [self._process_single_item(item) for item in batch]" gathered:
\* add_data puts every item of the batch at the end of the queue
process_single_items(queue, items) == queue \o items

InitEngine ==
    /\ PortfolioInit
    /\ BacktestIdle
    /\ AggregatorInit
    /\ FearGreedIdle
    /\ IngestionIdle
    /\ ProcessorIdle
    /\ SignalsIdle

\* SentimentEngine.start: is_running is set and the tasks are created;
\* the start_processing task sets is_processing and creates the two loops
\* of the processor
Start ==
    /\ \A loop \in Loops : loop_pc[loop] = "not started"
    /\ is_running' = TRUE
    /\ is_processing' = TRUE
    /\ loop_pc' = [loop \in Loops |-> "top"]
    /\ UNCHANGED <<processing_queue, results_queue, signals_queue, batch,
                   proc_added, requeued>>
    /\ UNCHANGED <<pfvars, callvars, btvars, aggvars, fgvars, sgvars, ingvars>>

\* SentimentEngine.stop: is_running is cleared, stop_all finds no task of
\* the idle manager, and stop_processing clears is_processing
Stop ==
    /\ is_running
    /\ is_running' = FALSE
    /\ is_processing' = FALSE
    /\ UNCHANGED <<processing_queue, results_queue, signals_queue, loop_pc,
                   batch, proc_added, requeued>>
    /\ UNCHANGED <<pfvars, callvars, btvars, aggvars, fgvars, sgvars, ingvars>>

\* SentimentProcessor.add_data called by a producer with a new item: the
\* put on the queue made by asyncio.Queue() returns at once
AddData ==
    /\ proc_added < MaxItems
    /\ processing_queue' = Append(processing_queue, proc_added + 1)
    /\ proc_added' = proc_added + 1
    /\ UNCHANGED <<results_queue, signals_queue, is_processing, is_running,
                   loop_pc, batch, requeued>>
    /\ UNCHANGED <<pfvars, callvars, btvars, aggvars, fgvars, sgvars, ingvars>>

\* _process_data starts: the first test of its while
ProcessDataEnter ==
    /\ loop_pc["_process_data"] = "top"
    /\ Goto("_process_data", WhileIsProcessing("waiting"))
    /\ UNCHANGED <<processing_queue, results_queue, signals_queue, is_processing,
                   is_running, batch, proc_added, requeued>>
    /\ UNCHANGED <<pfvars, callvars, btvars, aggvars, fgvars, sgvars, ingvars>>

\* _process_data gets an item within its timeout, analyses it, puts the
\* ProcessedData on results_queue and tests its while again
ProcessDataGet ==
    /\ loop_pc["_process_data"] = "waiting"
    /\ processing_queue # <<>>
    /\ processing_queue' = Tail(processing_queue)
    /\ results_queue' = Append(results_queue, [raw_data |-> Head(processing_queue)])
    /\ Goto("_process_data", WhileIsProcessing("waiting"))
    /\ UNCHANGED <<signals_queue, is_processing, is_running, batch, proc_added,
                   requeued>>
    /\ UNCHANGED <<pfvars, callvars, btvars, aggvars, fgvars, sgvars, ingvars>>

\* the wait of _process_data times out on the empty queue: continue
ProcessDataTimeout ==
    /\ loop_pc["_process_data"] = "waiting"
    /\ processing_queue = <<>>
    /\ Goto("_process_data", WhileIsProcessing("waiting"))
    /\ UNCHANGED <<processing_queue, results_queue, signals_queue, is_processing,
                   is_running, batch, proc_added, requeued>>
    /\ UNCHANGED <<pfvars, callvars, btvars, aggvars, fgvars, sgvars, ingvars>>

\* _batch_process starts: the first test of its outer while, and with the
\* empty batch the test of the inner one
BatchEnter ==
    /\ loop_pc["_batch_process"] = "top"
    /\ Goto("_batch_process", WhileIsProcessing("collecting"))
    /\ UNCHANGED <<processing_queue, results_queue, signals_queue, is_processing,
                   is_running, batch, proc_added, requeued>>
    /\ UNCHANGED <<pfvars, callvars, btvars, aggvars, fgvars, sgvars, ingvars>>

\* _batch_process gets an item within its timeout and appends it to the
\* batch; the inner while ends when the batch is full
BatchGet ==
    /\ loop_pc["_batch_process"] = "collecting"
    /\ processing_queue # <<>>
    /\ processing_queue' = Tail(processing_queue)
    /\ batch' = Append(batch, Head(processing_queue))
    /\ Goto("_batch_process",
            IF Len(batch') < BATCH_SIZE THEN "collecting" ELSE "gathering")
    /\ UNCHANGED <<results_queue, signals_queue, is_processing, is_running,
                   proc_added, requeued>>
    /\ UNCHANGED <<pfvars, callvars, btvars, aggvars, fgvars, sgvars, ingvars>>

\* the wait of _batch_process times out on the empty queue: with a partial
\* batch the inner while is left; with an empty one the loop sleeps and
\* continues, in the inner while
BatchTimeout ==
    /\ loop_pc["_batch_process"] = "collecting"
    /\ processing_queue = <<>>
    /\ Goto("_batch_process", IF batch # <<>> THEN "gathering" ELSE "collecting")
    /\ UNCHANGED <<processing_queue, results_queue, signals_queue, is_processing,
                   is_running, batch, proc_added, requeued>>
    /\ UNCHANGED <<pfvars, callvars, btvars, aggvars, fgvars, sgvars, ingvars>>

\* _batch_process hands the items of its batch to _process_single_item,
\* clears the batch and tests its outer while again
BatchGathered ==
    /\ loop_pc["_batch_process"] = "gathering"
    /\ processing_queue' = process_single_items(processing_queue, batch)
    /\ requeued' = requeued \cup { batch[i] : i \in DOMAIN batch }
    /\ batch' = <<>>
    /\ Goto("_batch_process", WhileIsProcessing("collecting"))
    /\ UNCHANGED <<results_queue, signals_queue, is_processing, is_running,
                   proc_added>>
    /\ UNCHANGED <<pfvars, callvars, btvars, aggvars, fgvars, sgvars, ingvars>>

\* _process_data_pipeline tests its while, at its start or after its sleep
ProcessDataPipelineStep ==
    /\ loop_pc["_process_data_pipeline"] \in {"top", "sleeping"}
    /\ Goto("_process_data_pipeline", WhileIsRunning("sleeping"))
    /\ UNCHANGED <<processing_queue, results_queue, signals_queue, is_processing,
                   is_running, batch, proc_added, requeued>>
    /\ UNCHANGED <<pfvars, callvars, btvars, aggvars, fgvars, sgvars, ingvars>>

\* the body of _generate_signals_pipeline at wall-clock time now: the
\* signals generate_signals returns are put on signals_queue
SignalsPipelineBody(gen) ==
    /\ signal_history' = gen.signal_history
    /\ last_signals' = gen.last_signals
    /\ signals_queue' = signals_queue \o gen.signals

\* _generate_signals_pipeline tests its while, at its start or after its
\* sleep, and runs its body
GenerateSignalsPipelineStep ==
    /\ loop_pc["_generate_signals_pipeline"] \in {"top", "sleeping"}
    /\ Goto("_generate_signals_pipeline", WhileIsRunning("sleeping"))
    /\ IF is_running
       THEN \E now \in EvaluationTimes :
                SignalsPipelineBody(generate_signals(sentiment_data, signal_history,
                                                     last_signals, now))
       ELSE UNCHANGED <<signal_history, last_signals, signals_queue>>
    /\ UNCHANGED <<processing_queue, results_queue, is_processing, is_running,
                   batch, proc_added, requeued, sg_calls, sg_last>>
    /\ UNCHANGED <<pfvars, callvars, btvars, aggvars, fgvars, ingvars>>

NextEngine ==
    \/ Start
    \/ Stop
    \/ AddData
    \/ ProcessDataEnter
    \/ ProcessDataGet
    \/ ProcessDataTimeout
    \/ BatchEnter
    \/ BatchGet
    \/ BatchTimeout
    \/ BatchGathered
    \/ ProcessDataPipelineStep
    \/ GenerateSignalsPipelineStep

SpecEngine == InitEngine /\ [][NextEngine]_vars

\* the event loop runs every task that can go on, every timeout and sleep
\* ends, and the put of an item wakes _process_data when it waits in get
SpecEngineFair ==
    /\ SpecEngine
    /\ WF_vars(ProcessDataEnter)
    /\ SF_vars(ProcessDataGet)
    /\ WF_vars(ProcessDataTimeout)
    /\ WF_vars(BatchEnter)
    /\ WF_vars(BatchGet)
    /\ WF_vars(BatchTimeout)
    /\ WF_vars(BatchGathered)
    /\ WF_vars(ProcessDataPipelineStep)
    /\ WF_vars(GenerateSignalsPipelineStep)

(***************************************************************************)
(* One DataIngestionManager (src/core/data_ingestion.py): start_all        *)
(* creates a task running _process_source_data for each source, the        *)
(* sources yield items or fail, and stop_all cancels the tasks.  A task is *)
(* "none" before it is created, "running", "failed" after an exception of  *)
(* its stream was caught, "ended" after the break, "cancelled" after the   *)
(* cancellation was caught.                                                *)
(***************************************************************************)
\* number of items a task receives from its source
MaxReceived == 1

\* an exception of the stream that leaves _process_source_data
StreamRaises_propagated(task) == [task |-> "failed", propagated |-> TRUE]

\* "except Exception as e" of _process_source_data: the exception of the
\* stream is logged and the task ends
StreamRaises(task) == [task |-> "failed", propagated |-> FALSE]

InitIngestion ==
    /\ PortfolioInit
    /\ BacktestIdle
    /\ AggregatorInit
    /\ FearGreedIdle
    /\ IngestionIdle
    /\ ProcessorIdle
    /\ SignalsIdle

\* DataIngestionManager.start_all, called once: no await of it suspends,
\* so every source is started and every task created in one step
StartAll ==
    /\ ~manager_is_running
    /\ \A i \in DOMAIN Sources : tasks[i] = "none"
    /\ manager_is_running' = TRUE
    /\ source_is_running' = [i \in DOMAIN Sources |-> TRUE]
    /\ tasks' = [i \in DOMAIN Sources |-> "running"]
    /\ UNCHANGED <<received, propagated>>
    /\ UNCHANGED <<pfvars, callvars, btvars, aggvars, fgvars, sgvars, procvars>>

\* the stream of source i yields an item to its task: the task leaves the
\* loop when the manager is not running, and logs the item otherwise
SourceYields(i) ==
    /\ tasks[i] = "running"
    /\ source_is_running[i]
    /\ received[i] < MaxReceived
    /\ IF ~manager_is_running
       THEN /\ tasks' = [tasks EXCEPT ![i] = "ended"]
            /\ UNCHANGED received
       ELSE /\ received' = [received EXCEPT ![i] = received[i] + 1]
            /\ UNCHANGED tasks
    /\ UNCHANGED <<manager_is_running, source_is_running, propagated>>
    /\ UNCHANGED <<pfvars, callvars, btvars, aggvars, fgvars, sgvars, procvars>>

\* the stream of source i raises while its task consumes it
SourceFails(i) ==
    /\ tasks[i] = "running"
    /\ tasks' = [tasks EXCEPT ![i] = StreamRaises(tasks[i]).task]
    /\ propagated' = (propagated \/ StreamRaises(tasks[i]).propagated)
    /\ UNCHANGED <<manager_is_running, source_is_running, received>>
    /\ UNCHANGED <<pfvars, callvars, btvars, aggvars, fgvars, sgvars, procvars>>

\* DataIngestionManager.stop_all: the flag is cleared, every task is
\* cancelled (a running one catches the CancelledError and ends) and every
\* source is stopped
StopAll ==
    /\ manager_is_running
    /\ manager_is_running' = FALSE
    /\ tasks' = [i \in DOMAIN Sources |->
                    IF tasks[i] = "running" THEN "cancelled" ELSE tasks[i]]
    /\ source_is_running' = [i \in DOMAIN Sources |-> FALSE]
    /\ UNCHANGED <<received, propagated>>
    /\ UNCHANGED <<pfvars, callvars, btvars, aggvars, fgvars, sgvars, procvars>>

NextIngestion ==
    \/ StartAll
    \/ \E i \in DOMAIN Sources : SourceYields(i)
    \/ \E i \in DOMAIN Sources : SourceFails(i)
    \/ StopAll

SpecIngestion == InitIngestion /\ [][NextIngestion]_vars

(***************************************************************************)
(* Properties of the Portfolio.                                            *)
(***************************************************************************)
\* every Position object the portfolio holds, open ones first
AllPositions == positions \o closed_positions

\* the Position object with identity id among a list of positions
ById(seq, id) == seq[CHOOSE i \in DOMAIN seq : seq[i].id = id]

\* the positions of a list that are OPEN and for asset a
OpenFor(seq, a) == { i \in DOMAIN seq : seq[i].symbol = a /\ ~seq[i].is_closed }

\* C1: after any sequence of add_signal and update_positions calls the
\* portfolio never holds more than one OPEN position for the same asset.
C1_OneOpenPositionPerAsset ==
    \A a \in Assets : Cardinality(OpenFor(AllPositions, a)) <= 1

\* an accepted signal has superseded an open position of its asset while
\* the other asset has an open position as well
C1_Witness ==
    /\ last.op = "add_signal"
    /\ last.result = "True"
    /\ \E i \in DOMAIN closed_positions :
          /\ closed_positions[i].symbol = last.signal.asset
          /\ closed_positions[i].reason = "new_signal"
    /\ \A a \in Assets : Cardinality(OpenFor(positions, a)) = 1

\* C2: an add_signal that rejects a non-HOLD signal by the 95% capital guard
\* returns False and leaves the Portfolio unchanged (no position created,
\* capital unchanged, an OPEN position of the asset neither closed nor
\* settled).
C2_RejectionLeavesPortfolioUnchanged ==
    [][ (/\ last'.op = "add_signal"
         /\ last'.signal.signal_type # HOLD
         /\ last'.result = "False")
        => UNCHANGED pfvars ]_vars

\* C3: every drawdown recorded in an equity-curve point is >= 0.
C3_RecordedDrawdownNonNegative ==
    \A i \in DOMAIN equity_curve : RGe(equity_curve[i].drawdown, Zero)

\* C4: a Position goes from OPEN to CLOSED at most once and never back: a
\* closed position stays closed and close_position is not executed on it
\* again, so close_position has run once on a closed position and never on
\* an open one.
C4_ClosedAtMostOnce ==
    [][ /\ \A i \in DOMAIN AllPositions :
              AllPositions[i].is_closed =>
                  \E j \in DOMAIN AllPositions' :
                      /\ AllPositions'[j].id = AllPositions[i].id
                      /\ AllPositions'[j].is_closed
                      /\ AllPositions'[j].close_calls = AllPositions[i].close_calls
        /\ \A j \in DOMAIN AllPositions' :
              AllPositions'[j].close_calls = IF AllPositions'[j].is_closed THEN 1 ELSE 0
      ]_vars

\* a position closed by an earlier call is still held, closed, after a later
\* update_positions whose snapshot has a price for its asset
C4_Witness ==
    /\ last.op = "update_positions"
    /\ \E i \in DOMAIN closed_positions :
          /\ closed_positions[i].is_closed
          /\ closed_positions[i].exit_time < clock
          /\ last.market_data.price[closed_positions[i].symbol] # None
    /\ positions # <<>>

\* the fields of a position that C5 names
ExitFields(pos) ==
    <<pos.exit_price, pos.exit_time, pos.pnl,
      pos.max_favorable_excursion, pos.max_adverse_excursion>>

\* C5: a CLOSED Position is frozen: no later add_signal or update_positions
\* call changes its exit_price, exit_time, pnl or excursions, and
\* update_price leaves it as it is whatever price and time it is given.
C5_ClosedPositionFrozen ==
    [][ /\ \A i \in DOMAIN AllPositions :
              AllPositions[i].is_closed =>
                  ExitFields(ById(AllPositions', AllPositions[i].id))
                      = ExitFields(AllPositions[i])
        /\ \A j \in DOMAIN AllPositions' :
              AllPositions'[j].is_closed =>
                  \A price \in Prices, dt \in TimeSteps \cup {0} :
                      update_price(AllPositions'[j], price, clock' + dt)
                          = AllPositions'[j]
      ]_vars

\* a position was closed after an adverse or favorable excursion, and a
\* later update_positions brought another price for its asset
C5_Witness ==
    /\ last.op = "update_positions"
    /\ \E i \in DOMAIN closed_positions :
          LET pos == closed_positions[i]
          IN  /\ pos.exit_time < last.market_data.timestamp
              /\ last.market_data.price[pos.symbol] \notin {None, pos.exit_price}
              /\ \/ pos.max_favorable_excursion # Zero
                 \/ pos.max_adverse_excursion # Zero

\* C6: add_signal with a HOLD signal returns False and changes nothing in
\* the Portfolio.
C6_HoldChangesNothing ==
    [][ (last'.op = "add_signal" /\ last'.signal.signal_type = HOLD)
        => (last'.result = "False" /\ UNCHANGED pfvars) ]_vars

\* a HOLD signal was offered for an asset that has an OPEN position
C6_Witness ==
    /\ last.op = "add_signal"
    /\ last.signal.signal_type = HOLD
    /\ OpenFor(positions, last.signal.asset) # {}

\* C7: an accepted signal for an asset with an OPEN position closes that
\* position at the current price and the signal's timestamp, settles it
\* into the capital, and only then opens the new position, against the
\* settled capital.
C7_SupersedeSettlesThenOpens ==
    [][ (/\ last'.op = "add_signal"
         /\ last'.result = "True"
         /\ OpenFor(positions, last'.signal.asset) # {})
        =>
        LET signal == last'.signal
            price == last'.current_price
            old == positions[CHOOSE i \in OpenFor(positions, signal.asset) : TRUE]
            fraction == IF old.signal.signal_type = BUY
                        THEN Rat(price - old.entry_price, old.entry_price)
                        ELSE Rat(old.entry_price - price, old.entry_price)
            pnl == RMul(fraction, old.signal.position_size)
            capital == RAdd(current_capital, RMul(pnl, current_capital))
            new == positions'[Len(positions')]
        IN  /\ Len(closed_positions') = Len(closed_positions) + 1
            /\ LET settled == closed_positions'[Len(closed_positions')]
               IN  /\ settled.id = old.id
                   /\ settled.is_closed
                   /\ settled.exit_price = price
                   /\ settled.exit_time = signal.timestamp
                   /\ settled.pnl = pnl
            /\ current_capital' = capital
            /\ \A i \in DOMAIN positions' : positions'[i].id # old.id
            /\ Len(positions') = Len(positions)
            /\ new.id \notin { AllPositions[i].id : i \in DOMAIN AllPositions }
            /\ new.symbol = signal.asset
            /\ new.signal = signal
            /\ new.entry_price = price
            /\ ~new.is_closed
            /\ RLe(RMul(capital, signal.position_size),
                   RMul(capital, MaxUtilization))
      ]_vars

\* an accepted signal superseded a position whose PnL changed the capital
C7_Witness ==
    /\ last.op = "add_signal"
    /\ last.result = "True"
    /\ closed_positions # <<>>
    /\ LET settled == closed_positions[Len(closed_positions)]
       IN  /\ settled.reason = "new_signal"
           /\ settled.symbol = last.signal.asset
           /\ settled.pnl # Zero
           /\ settled.exit_time > settled.entry_time
    /\ OpenFor(positions, last.signal.asset) # {}

\* the capital after settling the positions of a list one after the other,
\* each changing it by pnl fraction x position size x capital before
RECURSIVE CapitalAfter(_, _)
CapitalAfter(capital, settled) ==
    IF settled = <<>> THEN capital
    ELSE LET pos == Head(settled)
             fraction == IF pos.signal.signal_type = BUY
                         THEN Rat(pos.exit_price - pos.entry_price, pos.entry_price)
                         ELSE Rat(pos.entry_price - pos.exit_price, pos.entry_price)
             change == RMul(RMul(fraction, pos.signal.position_size), capital)
         IN  CapitalAfter(RAdd(capital, change), Tail(settled))

\* the closed position of Scenario C: BUY, size 0.1, entry 100, exit 120
ScenarioC(pos) ==
    /\ pos.signal.signal_type = BUY
    /\ pos.signal.position_size = <<1, 10>>
    /\ pos.entry_price = 100
    /\ pos.exit_price = 120

\* C8: each settlement changes the capital by realizedPnlFraction x
\* positionSizeFraction x capital before the settlement, the fraction being
\* (exit-entry)/entry for BUY and (entry-exit)/entry for SELL; capital
\* 100000 with the one closed position of Scenario C becomes 102000.
C8_SettlementChangesCapital ==
    /\ current_capital = CapitalAfter(FromInt(initial_capital), closed_positions)
    /\ (/\ initial_capital = 100000
        /\ Len(closed_positions) = 1
        /\ ScenarioC(closed_positions[1]))
       => current_capital = FromInt(102000)

\* Scenario C: the BUY position of size 0.1 entered at 100 was closed by
\* take-profit at 120 and settled
C8_Witness ==
    /\ Len(closed_positions) = 1
    /\ ScenarioC(closed_positions[1])
    /\ closed_positions[1].reason = "take_profit"
    /\ current_capital = FromInt(102000)

\* C9: no call lowers max_drawdown or peak_equity.
C9_DrawdownAndPeakMonotone ==
    [][ RLe(max_drawdown, max_drawdown') /\ RLe(peak_equity, peak_equity') ]_vars

\* after a drawdown the equity has recovered: the latest point's drawdown is
\* below the maximum, and the peak has risen above the initial capital
C9_Witness ==
    /\ Len(equity_curve) >= 2
    /\ RGt(max_drawdown, Zero)
    /\ RLt(equity_curve[Len(equity_curve)].drawdown, max_drawdown)
    /\ RGe(equity_curve[Len(equity_curve)].drawdown, Zero)

\* C10: on update_positions an OPEN position held no longer than 24h whose
\* asset has a price in the snapshot is closed exactly when the price has
\* crossed one of its levels in its direction (BUY: price <= stopLoss or
\* price >= takeProfit; SELL: price >= stopLoss or price <= takeProfit); a
\* position whose price is strictly between the levels stays OPEN.
C10_ExitsAreDirectionAware ==
    [][ last'.op = "update_positions" =>
        \A i \in DOMAIN positions :
            LET pos == positions[i]
                price == last'.market_data.price[pos.symbol]
                sl == pos.signal.stop_loss
                tp == pos.signal.take_profit
                crossed ==
                    IF pos.signal.signal_type = BUY
                    THEN (sl # None /\ price <= sl) \/ (tp # None /\ price >= tp)
                    ELSE (sl # None /\ price >= sl) \/ (tp # None /\ price <= tp)
            IN  (/\ ~pos.is_closed
                 /\ price # None
                 /\ last'.market_data.timestamp - pos.entry_time <= max_hold_time)
                => (ById(AllPositions', pos.id).is_closed <=> crossed)
      ]_vars

\* C11: an OPEN position is closed for TIME_EXIT by the first
\* update_positions call whose observation for its asset is timestamped more
\* than 24 hours after its entry time, so none stays OPEN after such an
\* observation; no position is closed for TIME_EXIT at an elapsed time of 24
\* hours or less.
C11_TimeExitAfterMaxHold ==
    [][ last'.op = "update_positions" =>
        \A i \in DOMAIN positions :
            LET pos == positions[i]
                price == last'.market_data.price[pos.symbol]
                elapsed == last'.market_data.timestamp - pos.entry_time
                after == ById(AllPositions', pos.id)
            IN  (~pos.is_closed /\ price # None) =>
                    /\ elapsed > max_hold_time =>
                          /\ after.is_closed
                          /\ after.reason = "time_exit"
                          /\ after.exit_time = last'.market_data.timestamp
                    /\ (after.is_closed /\ after.reason = "time_exit") =>
                          elapsed > max_hold_time
      ]_vars

(***************************************************************************)
(* Properties of run_backtest.                                             *)
(***************************************************************************)
\* the BacktestResult values returned so far
Returned == { i \in DOMAIN bt_results : bt_results[i].raised = "" }

\* C12: a run that ends with no closed position (total_trades = 0) reports
\* win_rate = 0 and total_return = 0, also when a position was opened and is
\* still OPEN at the end.
C12_ZeroTradesZeroReturn ==
    \A i \in Returned :
        bt_results[i].result.total_trades = 0 =>
            /\ bt_results[i].result.win_rate = Zero
            /\ bt_results[i].result.total_return = Zero

\* C13: two run_backtest invocations with identical arguments return
\* identical BacktestResult values, equity curves and trade lists included.
C13_RunsAreDeterministic ==
    \A i, j \in DOMAIN bt_results : bt_results[i] = bt_results[j]

\* the sum of the PnL of the trades of a list
RECURSIVE TotalPnl(_)
TotalPnl(trades) ==
    IF trades = <<>> THEN Zero
    ELSE RAdd(Head(trades).pnl, TotalPnl(Tail(trades)))

IsWin(pnl) == pnl[1] > 0
IsLoss(pnl) == pnl[1] < 0

\* the trades of a result that satisfy Test
TradesWith(result, Test(_)) ==
    { k \in DOMAIN result.details.all_trades :
        Test(result.details.all_trades[k].pnl) }

LastN(seq, n) ==
    IF Len(seq) <= n THEN seq ELSE SubSeq(seq, Len(seq) - n + 1, Len(seq))

\* the entries of a list whose timestamp is inside the window that ends at now
InWindow(seq, now, window_size) ==
    SelectSeq(seq, LAMBDA item : now - item.timestamp <= window_size)

\* the latest call was a query and aggregated exactly the entries of expected
Aggregated(expected) ==
    IF expected = <<>>
    THEN agg_last.result = Absent
    ELSE /\ agg_last.result.present
         /\ agg_last.result.recent_data = expected
         /\ agg_last.result.total_mentions = Len(expected)
         /\ RMul(agg_last.result.sentiment_score, FromInt(Len(expected)))
              = Sum([i \in DOMAIN expected |-> expected[i].sentiment_score])

\* C15 as stated: a query aggregates exactly the observations added for the
\* asset with now - timestamp <= w, also when more observations than the
\* capacity of the history fall inside the window.
C15_WindowOverAllAdded ==
    agg_last.op = "get_aggregated_sentiment" =>
        Aggregated(InWindow(DequeOf(agg_added, agg_last.asset),
                            agg_last.now, agg_last.window_size))

\* C15 amended: a query aggregates exactly those of the asset's most
\* recently added observations, as many as the capacity of the history, that
\* have now - timestamp <= w: none older is included and none of these inside
\* the window is left out.
C15_WindowOverHistory ==
    agg_last.op = "get_aggregated_sentiment" =>
        Aggregated(InWindow(LastN(DequeOf(agg_added, agg_last.asset), HistoryCapacity),
                            agg_last.now, agg_last.window_size))

\* a query of an asset for which more observations were added than the
\* history holds; of those held one is on the edge of the window and one is
\* older than the window
C15_Witness ==
    /\ agg_last.op = "get_aggregated_sentiment"
    /\ Len(DequeOf(agg_added, agg_last.asset)) > HistoryCapacity
    /\ agg_last.result.present
    /\ \E i \in DOMAIN agg_last.result.recent_data :
          agg_last.now - agg_last.result.recent_data[i].timestamp
              = agg_last.window_size
    /\ Len(agg_last.result.recent_data) < Len(sentiment_data[agg_last.asset])

\* the number of times asset a is in a list of assets
Occurrences(assets, a) == Cardinality({ i \in DOMAIN assets : assets[i] = a })

\* C16: the history of an asset never holds more than its capacity; an add
\* at full capacity evicts exactly the oldest-inserted entry of the asset
\* and keeps the others in insertion order, and the history of an asset the
\* observation does not name is not touched.
C16_BoundedHistoryEvictsOldest ==
    [][ agg_last'.op = "add_sentiment_data" =>
        LET assets == extract_assets(agg_last'.data)
            item == SentimentItem(agg_last'.data)
        IN  /\ DOMAIN sentiment_data' =
                  DOMAIN sentiment_data \cup { assets[i] : i \in DOMAIN assets }
            /\ \A a \in DOMAIN sentiment_data' :
                  LET appended == DequeOf(sentiment_data, a)
                                    \o [i \in 1..Occurrences(assets, a) |-> item]
                  IN  /\ Len(sentiment_data'[a]) <= HistoryCapacity
                      /\ sentiment_data'[a] = LastN(appended, HistoryCapacity)
      ]_vars

\* an observation was added for an asset whose history was full, while
\* another asset, which the observation does not name, has a history
C16_Witness ==
    /\ agg_last.op = "add_sentiment_data"
    /\ \E a, b \in DOMAIN sentiment_data :
          /\ Occurrences(extract_assets(agg_last.data), a) = 1
          /\ Len(agg_added[a]) > HistoryCapacity
          /\ Len(sentiment_data[a]) = HistoryCapacity
          /\ Occurrences(extract_assets(agg_last.data), b) = 0
          /\ sentiment_data[b] # <<>>

\* the scores of a list of entries
Scores(items) == [i \in DOMAIN items |-> items[i].sentiment_score]

\* the mean of the later entries minus the mean of the earlier ones, the
\* earlier ones being the first n of the list
HalvesDifference(scores, n) ==
    LET earlier == SubSeq(scores, 1, n)
        later == SubSeq(scores, n + 1, Len(scores))
    IN  RSub(RDiv(Sum(later), FromInt(Len(later))),
             RDiv(Sum(earlier), FromInt(Len(earlier))))

\* C17: for a filtered window with an odd number (3 or more) of
\* observations the earlier half takes the middle one; Scenario A, scores
\* 0.8, 0.6, -0.2 in that order, gives sampleCount 3, meanScore 0.4 and
\* momentum -0.9.
C17_OddWindowMomentum ==
    (agg_last.op = "get_aggregated_sentiment" /\ agg_last.result.present) =>
        LET scores == Scores(agg_last.result.recent_data)
            n == Len(scores)
        IN  /\ (n % 2 = 1 /\ n >= 3) =>
                  agg_last.result.momentum = HalvesDifference(scores, (n + 1) \div 2)
            /\ scores = << <<4, 5>>, <<3, 5>>, <<-1, 5>> >> =>
                  /\ agg_last.result.total_mentions = 3
                  /\ agg_last.result.sentiment_score = <<2, 5>>
                  /\ agg_last.result.momentum = <<-9, 10>>

\* a list of entries in the order of their timestamps (entries of the same
\* timestamp keep their order)
RECURSIVE SortByTimestamp(_)
SortByTimestamp(items) ==
    IF items = <<>> THEN <<>>
    ELSE LET least == CHOOSE i \in DOMAIN items :
                         \A j \in DOMAIN items :
                             \/ items[i].timestamp < items[j].timestamp
                             \/ items[i].timestamp = items[j].timestamp /\ i <= j
         IN  <<items[least]>>
               \o SortByTimestamp([k \in 1..(Len(items) - 1) |->
                                      IF k < least THEN items[k] ELSE items[k + 1]])

\* C18: momentum splits the filtered observations by timestamp: whatever
\* the order in which they were added, it is the momentum of the
\* observations taken in the order of their timestamps.
C18_MomentumIsChronological ==
    (agg_last.op = "get_aggregated_sentiment" /\ agg_last.result.present) =>
        agg_last.result.momentum
            = Momentum(Scores(SortByTimestamp(agg_last.result.recent_data)))

(***************************************************************************)
(* Properties of the fear-and-greed index and of its influence.            *)
(***************************************************************************)
\* the classification that the thresholds give a score, as the one bucket
\* whose bounds hold it
Bucket(score) ==
    CHOOSE c \in {"Extreme Fear", "Fear", "Neutral", "Greed", "Extreme Greed"} :
        \/ c = "Extreme Fear" /\ RLe(score, FromInt(25))
        \/ c = "Fear" /\ RGt(score, FromInt(25)) /\ RLe(score, FromInt(45))
        \/ c = "Neutral" /\ RGt(score, FromInt(45)) /\ RLe(score, FromInt(55))
        \/ c = "Greed" /\ RGt(score, FromInt(55)) /\ RLe(score, FromInt(75))
        \/ c = "Extreme Greed" /\ RGt(score, FromInt(75))

\* C19: the overall_score of every index calculated lies in [0,100] and its
\* classification is the bucket of the thresholds with inclusive upper
\* bounds; the components (0.5, 0.2, 0.1, 0.0) give 63.5 and Greed.
C19_IndexClampedAndClassified ==
    fg_last.op = "calculate_fear_greed_index" =>
        LET index == fg_last.result
        IN  /\ RGe(index.overall_score, Zero)
            /\ RLe(index.overall_score, FromInt(100))
            /\ index.classification = Bucket(index.overall_score)
            /\ (/\ index.sentiment_component = <<1, 2>>
                /\ index.momentum_component = <<1, 5>>
                /\ index.volume_component = <<1, 10>>
                /\ index.correlation_component = Zero)
               => /\ index.overall_score = <<127, 2>>
                  /\ index.classification = "Greed"

\* the index was calculated from the components (0.5, 0.2, 0.1, 0.0)
C19_Witness ==
    /\ fg_last.op = "calculate_fear_greed_index"
    /\ fg_last.result.sentiment_component = <<1, 2>>
    /\ fg_last.result.momentum_component = <<1, 5>>
    /\ fg_last.result.volume_component = <<1, 10>>
    /\ fg_last.result.overall_score = <<127, 2>>
    /\ fg_last.result.classification = "Greed"

\* C20: the influence multiplier agrees with the classification of the
\* score: 1.3 for Extreme Fear, 1.1 for Fear, 1.0 for Neutral, 0.9 for Greed
\* and 0.7 for Extreme Greed.
C20_InfluenceFollowsClassification ==
    fg_last.op = "calculate_fear_greed_influence" =>
        LET classification == classify_fear_greed(fg_last.fg_score)
        IN  fg_last.result =
                CASE classification = "Extreme Fear" -> <<13, 10>>
                  [] classification = "Fear" -> <<11, 10>>
                  [] classification = "Neutral" -> <<1, 1>>
                  [] classification = "Greed" -> <<9, 10>>
                  [] classification = "Extreme Greed" -> <<7, 10>>

(***************************************************************************)
(* Bookkeeping of the Portfolio.                                           *)
(***************************************************************************)
\* the identities of the Position objects of a list
IdsOf(seq) == { seq[i].id : i \in DOMAIN seq }

\* C28: after every add_signal and update_positions call the positions list
\* holds only OPEN positions and closed_positions only CLOSED ones, every
\* created Position is in exactly one of the two lists, and daily_returns
\* has one entry per closed position (each was settled exactly once).
C28_PortfolioBookkeeping ==
    /\ \A i \in DOMAIN positions : ~positions[i].is_closed
    /\ \A i \in DOMAIN closed_positions : closed_positions[i].is_closed
    /\ IdsOf(AllPositions) = 1 .. Len(AllPositions)
    /\ Len(daily_returns) = Len(closed_positions)

\* C29: from a positive initial capital, current_capital stays strictly
\* positive after any sequence of accepted BUY and SELL signals with
\* position size <= 0.95 and any positive prices.
C29_CapitalStaysPositive ==
    RGt(current_capital, Zero)

RunEnded == bt_run = NoRun /\ bt_results # <<>>

\* the steps start + k x 5 minutes <= end of the run
StepsOfRun ==
    { t \in bt_args.start_date .. bt_args.end_date :
        (t - bt_args.start_date) % StepMinutes = 0 }

\* the add_signal calls and the update_positions calls of the log
Offers == { k \in DOMAIN bt_log : bt_log[k].op = "add_signal" }
Updates == { k \in DOMAIN bt_log : bt_log[k].op = "update_positions" }

\* the symbols of the run
SymbolsOfRun == RunSymbols(bt_args.signals, bt_args.symbols)

C26_OneStepPerFiveMinutes ==
    RunEnded =>
        LET steps == (bt_args.end_date - bt_args.start_date) \div StepMinutes + 1
        IN  /\ Len(bt_results) \in Returned
            /\ Cardinality(Updates) = steps
            /\ Len(bt_results[Len(bt_results)].result.details.equity_curve) = steps

(***************************************************************************)
(* Properties of the SignalGenerator.                                      *)
(***************************************************************************)
\* the signals the generator holds or has just returned
EmittedSignals ==
    { signal_history[i] : i \in DOMAIN signal_history }
        \cup { last_signals[a] : a \in DOMAIN last_signals }
        \cup ( IF sg_last.op = "generate_signals"
               THEN { sg_last.result[i] : i \in DOMAIN sg_last.result }
               ELSE {} )

\* the aggregation of asset over window at the time of the last
\* generate_signals call is there
WindowPresent(asset, window) ==
    get_aggregated_sentiment(sentiment_data, asset, window, sg_last.now).present

\* C21: every signal generate_signals returned, appended to signal_history
\* or stored in last_signals has a confidence of at least
\* MIN_SIGNAL_CONFIDENCE, and a call returns no signal for an asset whose
\* short-window aggregation is absent at that call, whatever its medium and
\* long windows hold
C21_EmittedSignalsAreConfident ==
    /\ \A signal \in EmittedSignals : RGe(signal.confidence, MIN_SIGNAL_CONFIDENCE)
    /\ sg_last.op = "generate_signals"
           => \A i \in DOMAIN sg_last.result :
                  WindowPresent(sg_last.result[i].asset, SHORT_TERM_WINDOW)

\* a call returned a signal for one asset and none for another whose short
\* window is empty while its medium or long window has data
C21_Witness ==
    /\ sg_last.op = "generate_signals"
    /\ sg_last.result # <<>>
    /\ \E asset \in DOMAIN sentiment_data :
          /\ ~WindowPresent(asset, SHORT_TERM_WINDOW)
          /\ \/ WindowPresent(asset, MEDIUM_TERM_WINDOW)
             \/ WindowPresent(asset, LONG_TERM_WINDOW)
          /\ \A i \in DOMAIN sg_last.result : sg_last.result[i].asset # asset

(***************************************************************************)
(* Properties of the SentimentEngine and its SentimentProcessor.           *)
(***************************************************************************)
\* start has been called and stop after it
StopRequested ==
    /\ \A loop \in Loops : loop_pc[loop] # "not started"
    /\ ~is_running
    /\ ~is_processing

\* C22: once stop has been requested, each of _process_data,
\* _batch_process, _process_data_pipeline and _generate_signals_pipeline
\* eventually ends, also when processing_queue is empty at the stop
C22_LoopsEndAfterStop ==
    StopRequested ~> (\A loop \in Loops : loop_pc[loop] = "done")

\* C23: processing_queue is bounded, a producer is held back: the items
\* the producers deliver never wait in the queue all at once
C23_ProducerHeldBack == Len(processing_queue) < MaxItems

\* the number of places item id is at: waiting in processing_queue, held
\* in the batch, or analysed on results_queue
Places(id) ==
    Cardinality({ i \in DOMAIN processing_queue : processing_queue[i] = id })
        + Cardinality({ i \in DOMAIN batch : batch[i] = id })
        + Cardinality({ i \in DOMAIN results_queue : results_queue[i].raw_data = id })

\* item id has been analysed and put on results_queue
Analysed(id) == \E i \in DOMAIN results_queue : results_queue[i].raw_data = id

C25_FailureEndsOnlyItsTask ==
    [][ \A i \in DOMAIN Sources :
          (tasks[i] = "running" /\ tasks'[i] = "failed")
              => /\ ~propagated'
                 /\ \A j \in DOMAIN Sources \ {i} : tasks'[j] = tasks[j]
                 /\ manager_is_running' = manager_is_running ]_vars

\* the task of one source has failed before it received anything, the
\* task of another source runs and has received an item, and the manager
\* is running
C25_Witness ==
    /\ manager_is_running
    /\ \E i, j \in DOMAIN Sources :
          /\ tasks[i] = "failed" /\ received[i] = 0
          /\ tasks[j] = "running" /\ received[j] > 0

====
